---- MODULE Spec2Model ----
(***************************************************************************)
(* ETF screener: indicator engine (EMA, Supertrend, signals), streak       *)
(* detector, weekly resampler and the screening pipeline (Screener.execute *)
(* and the CLI pipeline screen_etfs).                                      *)
(*                                                                         *)
(* Floating point values are modelled as exact rationals [n, d] in lowest  *)
(* terms with d > 0; NaN (pandas' missing value) is the record with d = 0. *)
(* Comparisons with NaN are false, arithmetic with NaN yields NaN, as in   *)
(* IEEE/pandas.                                                            *)
(***************************************************************************)
EXTENDS Integers, Sequences, FiniteSets, TLC

VARIABLES
    series,          \* indicator engine: the input OHLCV bars (daily)
    st_period,       \* indicator engine: Supertrend ATR period
    st_multiplier,   \* indicator engine: Supertrend multiplier
    ind,             \* indicator engine: the frame returned by add_indicators
    ipc,             \* indicator engine: "input" | "done"
    sdf,             \* streak detector: the frame (Close, Supertrend) scanned
    sres,            \* streak detector: the (count, direction) returned
    spc,             \* streak detector: "input" | "done"
    daily,           \* resampler: the daily frame
    weekly,          \* resampler: the frame returned by resample_to_weekly
    wpc,             \* resampler: "input" | "done"
    db,              \* screener: the store, ticker -> index of its cached history
    mode,            \* screener: "api" (Screener.execute) | "cli" (screen_etfs)
    filters,         \* screener: the filter specification (Screener._filters)
    min_volume,      \* screener: minimum average volume of the volume stage
    days,            \* screener: look-back window of the volume stage, in days
    pc,              \* screener: the stage the pipeline is in
    results,         \* screener: the candidate rows (the local `results`)
    filtered,        \* screener: the local `filtered_results` of the running loop
    idx,             \* screener: position of the running loop in `results`
    fidx,            \* screener: position of the loop over the condition fields
    volume_out,      \* screener: the tickers as the volume stage ordered them
    ret              \* screener: what the call returned

VARIABLES
    cvalue,          \* evaluate_condition: the value argument
    cthreshold,      \* evaluate_condition: the threshold argument
    cresult,         \* evaluate_condition: the result, per operator
    cpc,             \* evaluate_condition: "input" | "done"
    calls,           \* builder: the filter-setting calls made so far, oldest first
    queries,         \* screener: volume queries issued, with their arguments
    lookups,         \* screener: history lookups issued, as <<stage, ticker>>
    max_results      \* screener: max_results of screen_by_volume, <<>> for None

VARIABLES
    table,           \* cache: the rows of the table etf_data
    seq,             \* cache: the highest id the table has handed out (AUTOINCREMENT)
    cache_df,        \* cache: the frame the caller passes to insert_dataframe
    last_calls,      \* cache: the last two insert calls, oldest first
    ninserts,        \* cache: insert calls made so far
    to_fetch,        \* batch: the symbols missing from the cache, in order
    fetched,         \* batch: the dict `etf_data`, as <<symbol, history>> in insertion order
    failures         \* batch: the collaborator calls that raised, as <<call, symbol>>

VARIABLES
    runs,            \* screener: execute() calls that returned before the one running
    first_run,       \* screener: what the first execute() call returned
    working_etfs,    \* discovery: the keys of self.working_etfs
    blacklist,       \* discovery: the keys of self.blacklist
    etfs_file,       \* discovery: the keys saved in etfs.json
    blacklist_file,  \* discovery: the keys saved in blacklist.json
    dpc,             \* discovery: "idle" | "discover" | "parallel"
    pending,         \* discovery: the tickers the running call still loops over / has submitted
    futures,         \* discovery: the submitted futures not yet completed, as indexes of pending
    max_workers,     \* discovery: threads of the pool of the running discover_parallel
    nops             \* discovery: calls made on the ETFDiscovery object

cacheVars == <<table, seq, cache_df, last_calls, ninserts>>

batchVars == <<to_fetch, fetched, failures>>

reuseVars == <<runs, first_run>>

discVars ==
    <<working_etfs, blacklist, etfs_file, blacklist_file, dpc, pending, futures, max_workers,
      nops>>

indVars == <<series, st_period, st_multiplier, ind, ipc>>

streakVars == <<sdf, sres, spc>>

weeklyVars == <<daily, weekly, wpc>>

screenVars ==
    <<db, mode, filters, min_volume, days, pc, results, filtered, idx, fidx, volume_out, ret>>

\* the state of the functions modelled beside the engine and the pipeline
extVars ==
    <<cvalue, cthreshold, cresult, cpc, max_results, calls, queries, lookups,
      cacheVars, batchVars, reuseVars, discVars>>

vars ==
    <<series, st_period, st_multiplier, ind, ipc, sdf, sres, spc, daily, weekly, wpc,
      db, mode, filters, min_volume, days, pc, results, filtered, idx, fidx, volume_out, ret,
      extVars>>

----------------------------------------------------------------------------
(* Rational arithmetic standing for Python/pandas floats.                  *)

NaN == [n |-> 0, d |-> 0]

IsNaN(x) == x.d = 0

Abs(i) == IF i < 0 THEN -i ELSE i

RECURSIVE GCD(_, _)
GCD(a, b) == IF b = 0 THEN a ELSE GCD(b, a % b)

Norm(num, den) ==
    LET g == GCD(Abs(num), den)
    IN  [n |-> num \div g, d |-> den \div g]

R(i) == [n |-> i, d |-> 1]

Frac(num, den) == Norm(num, den)

RAdd(a, b) == IF IsNaN(a) \/ IsNaN(b) THEN NaN ELSE Norm(a.n * b.d + b.n * a.d, a.d * b.d)

RSub(a, b) == IF IsNaN(a) \/ IsNaN(b) THEN NaN ELSE Norm(a.n * b.d - b.n * a.d, a.d * b.d)

RMul(a, b) == IF IsNaN(a) \/ IsNaN(b) THEN NaN ELSE Norm(a.n * b.n, a.d * b.d)

\* float division; a zero divisor gives NaN for 0/0 and an infinity otherwise,
\* which the model does not represent: callers divide by non-zero values only.
RDiv(a, b) ==
    IF IsNaN(a) \/ IsNaN(b) \/ b.n = 0 THEN NaN
    ELSE IF b.n < 0 THEN Norm(-(a.n * b.d), a.d * (-b.n))
    ELSE Norm(a.n * b.d, a.d * b.n)

RAbs(a) == IF IsNaN(a) THEN NaN ELSE [n |-> Abs(a.n), d |-> a.d]

RLt(a, b) == ~IsNaN(a) /\ ~IsNaN(b) /\ a.n * b.d < b.n * a.d

RLe(a, b) == ~IsNaN(a) /\ ~IsNaN(b) /\ a.n * b.d <= b.n * a.d

RGt(a, b) == RLt(b, a)

RGe(a, b) == RLe(b, a)

\* Python's builtin min/max on two defined floats
RMin(a, b) == IF RLt(b, a) THEN b ELSE a

RMax(a, b) == IF RGt(b, a) THEN b ELSE a

\* DataFrame.max(axis=1): the maximum of the defined values of a row
RowMax(a, b, c) ==
    LET m1 == IF IsNaN(a) THEN b ELSE IF IsNaN(b) THEN a ELSE RMax(a, b)
    IN  IF IsNaN(m1) THEN c ELSE IF IsNaN(c) THEN m1 ELSE RMax(m1, c)

Column(df, f) == [i \in 1..Len(df) |-> df[i][f]]

\* numpy's round(2): to the nearest multiple of 1/100, ties to even
Round2(x) ==
    IF IsNaN(x) THEN NaN
    ELSE LET p   == x.n * 100
             fl  == p \div x.d
             rem == p - fl * x.d
             k   == IF 2 * rem < x.d THEN fl
                    ELSE IF 2 * rem > x.d THEN fl + 1
                    ELSE IF fl % 2 = 0 THEN fl ELSE fl + 1
         IN  Frac(k, 100)

----------------------------------------------------------------------------
(* indicators.py                                                           *)

\* One step of pandas' ewm(adjust=False, ignore_na=False) mean: `w` is the
\* running average, `old_wt` the weight it carries (reset to 1 after every
\* observation, decayed across a missing one)
EwmStep(state, cur, alpha) ==
    IF ~IsNaN(state.w)
    THEN LET decayed == RMul(state.old_wt, RSub(R(1), alpha))
         IN  IF ~IsNaN(cur)
             THEN [w      |-> RDiv(RAdd(RMul(decayed, state.w), RMul(alpha, cur)),
                                   RAdd(decayed, alpha)),
                   old_wt |-> R(1)]
             ELSE [w |-> state.w, old_wt |-> decayed]
    ELSE [w |-> cur, old_wt |-> R(1)]

RECURSIVE EwmUpTo(_, _, _)
EwmUpTo(data, alpha, i) ==
    IF i = 0 THEN <<>>
    ELSE IF i = 1 THEN <<[w |-> data[1], old_wt |-> R(1)]>>
    ELSE LET prev == EwmUpTo(data, alpha, i - 1)
         IN  Append(prev, EwmStep(prev[i - 1], data[i], alpha))

\* fault model: the span taken for the centre of mass, alpha = 1/(period+1)
CalculateEmaCom(data, period) ==
    LET states == EwmUpTo(data, Frac(1, period + 1), Len(data))
    IN  [i \in 1..Len(data) |-> states[i].w]

\* calculate_ema: data.ewm(span=period, adjust=False).mean(), alpha = 2/(span+1):
\* ema[0] = x[0]; ema[i] = alpha*x[i] + (1-alpha)*ema[i-1]
calculate_ema(data, period) ==
    LET states == EwmUpTo(data, Frac(2, period + 1), Len(data))
    IN  [i \in 1..Len(data) |-> states[i].w]

\* tr = max(high - low, |high - close.shift()|, |low - close.shift()|), NaN skipped
TrueRange(high, low, close) ==
    [i \in 1..Len(close) |->
        LET tr1 == RSub(high[i], low[i])
            tr2 == IF i = 1 THEN NaN ELSE RAbs(RSub(high[i], close[i - 1]))
            tr3 == IF i = 1 THEN NaN ELSE RAbs(RSub(low[i], close[i - 1]))
        IN  RowMax(tr1, tr2, tr3)]

RECURSIVE SumRange(_, _, _)
SumRange(s, lo, hi) == IF lo > hi THEN R(0) ELSE RAdd(s[hi], SumRange(s, lo, hi - 1))

\* fault model: the rolling mean over the observations there are (min_periods=1)
RollingMeanPartial(s, period) ==
    [i \in 1..Len(s) |->
        IF i < period THEN RDiv(SumRange(s, 1, i), R(i))
        ELSE RDiv(SumRange(s, i - period + 1, i), R(period))]

\* tr.rolling(period).mean(): undefined until `period` observations exist
RollingMean(s, period) ==
    [i \in 1..Len(s) |->
        IF i < period THEN NaN
        ELSE RDiv(SumRange(s, i - period + 1, i), R(period))]

\* one step of the final upper band loop (indicators.py line 55-56)
FinalUpperStep(basic_ub_i, final_ub_prev, close_prev) ==
    IF ~IsNaN(basic_ub_i) /\ ~IsNaN(final_ub_prev)
    THEN IF RGt(close_prev, final_ub_prev)
         THEN RMin(basic_ub_i, final_ub_prev)
         ELSE basic_ub_i
    ELSE basic_ub_i

\* one step of the final lower band loop (indicators.py line 57-58)
FinalLowerStep(basic_lb_i, final_lb_prev, close_prev) ==
    IF ~IsNaN(basic_lb_i) /\ ~IsNaN(final_lb_prev)
    THEN IF RLt(close_prev, final_lb_prev)
         THEN RMax(basic_lb_i, final_lb_prev)
         ELSE basic_lb_i
    ELSE basic_lb_i

RECURSIVE FinalUpperUpTo(_, _, _)
FinalUpperUpTo(basic_ub, close, i) ==
    IF i = 0 THEN <<>>
    ELSE IF i = 1 THEN <<basic_ub[1]>>
    ELSE LET prev == FinalUpperUpTo(basic_ub, close, i - 1)
         IN  Append(prev, FinalUpperStep(basic_ub[i], prev[i - 1], close[i - 1]))

RECURSIVE FinalLowerUpTo(_, _, _)
FinalLowerUpTo(basic_lb, close, i) ==
    IF i = 0 THEN <<>>
    ELSE IF i = 1 THEN <<basic_lb[1]>>
    ELSE LET prev == FinalLowerUpTo(basic_lb, close, i - 1)
         IN  Append(prev, FinalLowerStep(basic_lb[i], prev[i - 1], close[i - 1]))

\* fault model: a flip that keeps the band of the direction it leaves as value
DirectionStepKeepsBand(first, dir_prev, close_i, ub_i, lb_i) ==
    IF first
    THEN [st |-> IF ~IsNaN(ub_i) THEN ub_i ELSE close_i, dir |-> -1]
    ELSE IF dir_prev = 1
    THEN IF ~IsNaN(lb_i) /\ RLe(close_i, lb_i)
         THEN [st |-> lb_i, dir |-> -1]
         ELSE [st |-> IF ~IsNaN(lb_i) THEN lb_i ELSE close_i, dir |-> 1]
    ELSE IF ~IsNaN(ub_i) /\ RGe(close_i, ub_i)
         THEN [st |-> ub_i, dir |-> 1]
         ELSE [st |-> IF ~IsNaN(ub_i) THEN ub_i ELSE close_i, dir |-> -1]

\* fault model: the direction loop flipping on strict inequalities only
DirectionStepStrict(first, dir_prev, close_i, ub_i, lb_i) ==
    IF first
    THEN [st |-> IF ~IsNaN(ub_i) THEN ub_i ELSE close_i, dir |-> -1]
    ELSE IF dir_prev = 1
    THEN IF ~IsNaN(lb_i) /\ RLt(close_i, lb_i)
         THEN [st |-> ub_i, dir |-> -1]
         ELSE [st |-> IF ~IsNaN(lb_i) THEN lb_i ELSE close_i, dir |-> 1]
    ELSE IF ~IsNaN(ub_i) /\ RGt(close_i, ub_i)
         THEN [st |-> lb_i, dir |-> 1]
         ELSE [st |-> IF ~IsNaN(ub_i) THEN ub_i ELSE close_i, dir |-> -1]

\* one step of the direction loop (indicators.py line 64-82): the Supertrend
\* value and direction of bar i from the direction of bar i-1
DirectionStep(first, dir_prev, close_i, ub_i, lb_i) ==
    IF first
    THEN [st |-> IF ~IsNaN(ub_i) THEN ub_i ELSE close_i, dir |-> -1]
    ELSE IF dir_prev = 1
    THEN IF ~IsNaN(lb_i) /\ RLe(close_i, lb_i)
         THEN [st |-> ub_i, dir |-> -1]
         ELSE [st |-> IF ~IsNaN(lb_i) THEN lb_i ELSE close_i, dir |-> 1]
    ELSE IF ~IsNaN(ub_i) /\ RGe(close_i, ub_i)
         THEN [st |-> lb_i, dir |-> 1]
         ELSE [st |-> IF ~IsNaN(ub_i) THEN ub_i ELSE close_i, dir |-> -1]

RECURSIVE DirectionUpTo(_, _, _, _)
DirectionUpTo(final_ub, final_lb, close, i) ==
    IF i = 0 THEN <<>>
    ELSE IF i = 1 THEN <<DirectionStep(TRUE, -1, close[1], final_ub[1], final_lb[1])>>
    ELSE LET prev == DirectionUpTo(final_ub, final_lb, close, i - 1)
         IN  Append(prev, DirectionStep(FALSE, prev[i - 1].dir, close[i],
                                        final_ub[i], final_lb[i]))

\* calculate_supertrend: returns (supertrend, final_ub, final_lb); the local
\* supertrend_direction is kept in the record for the properties about it
calculate_supertrend(high, low, close, period, multiplier) ==
    LET tr       == TrueRange(high, low, close)
        atr      == RollingMean(tr, period)
        hl2      == [i \in 1..Len(close) |-> RDiv(RAdd(high[i], low[i]), R(2))]
        basic_ub == [i \in 1..Len(close) |-> RAdd(hl2[i], RMul(multiplier, atr[i]))]
        basic_lb == [i \in 1..Len(close) |-> RSub(hl2[i], RMul(multiplier, atr[i]))]
        final_ub == FinalUpperUpTo(basic_ub, close, Len(close))
        final_lb == FinalLowerUpTo(basic_lb, close, Len(close))
        sd       == DirectionUpTo(final_ub, final_lb, close, Len(close))
    IN  [supertrend |-> [i \in 1..Len(close) |-> sd[i].st],
         final_ub   |-> final_ub,
         final_lb   |-> final_lb,
         direction  |-> [i \in 1..Len(close) |-> sd[i].dir],
         basic_ub   |-> basic_ub,
         basic_lb   |-> basic_lb]

\* fault model: weeks that end on Saturday (pandas' 'W-SAT')
WeekEndSaturday(d) == d + ((5 - (d % 7)) % 7)

\* Dates are day numbers; day 0 is a Monday, so d % 7 = 6 is a Sunday.
\* The Sunday that closes the calendar week of day d (pandas' 'W' = W-SUN).
WeekEnd(d) == d + (6 - (d % 7))

InWeek(df, end) == SelectSeq(df, LAMBDA row : WeekEnd(row.Date) = end)

\* GroupBy 'first' / 'last' / 'max' / 'min' skip missing values; 'sum' of
\* an empty group is 0
RECURSIVE AggFirst(_, _)
AggFirst(rows, f) ==
    IF rows = <<>> THEN NaN
    ELSE IF ~IsNaN(Head(rows)[f]) THEN Head(rows)[f]
    ELSE AggFirst(Tail(rows), f)

RECURSIVE AggLast(_, _)
AggLast(rows, f) ==
    IF rows = <<>> THEN NaN
    ELSE IF ~IsNaN(rows[Len(rows)][f]) THEN rows[Len(rows)][f]
    ELSE AggLast(SubSeq(rows, 1, Len(rows) - 1), f)

RECURSIVE AggMax(_, _)
AggMax(rows, f) ==
    IF rows = <<>> THEN NaN
    ELSE LET rest == AggMax(Tail(rows), f)
             x    == Head(rows)[f]
         IN  IF IsNaN(x) THEN rest ELSE IF IsNaN(rest) THEN x ELSE RMax(x, rest)

RECURSIVE AggMin(_, _)
AggMin(rows, f) ==
    IF rows = <<>> THEN NaN
    ELSE LET rest == AggMin(Tail(rows), f)
             x    == Head(rows)[f]
         IN  IF IsNaN(x) THEN rest ELSE IF IsNaN(rest) THEN x ELSE RMin(x, rest)

RECURSIVE AggSum(_, _)
AggSum(rows, f) == IF rows = <<>> THEN 0 ELSE Head(rows)[f] + AggSum(Tail(rows), f)

MinDate(df) == CHOOSE d \in {df[i].Date : i \in 1..Len(df)} :
                   \A j \in 1..Len(df) : d <= df[j].Date

MaxDate(df) == CHOOSE d \in {df[i].Date : i \in 1..Len(df)} :
                   \A j \in 1..Len(df) : d >= df[j].Date

\* resample_to_weekly: df.resample('W').agg(Open first, High max, Low min,
\* Close last, Volume sum); one row per calendar week from the week of the
\* first bar to the week of the last bar, labelled by its Sunday
resample_to_weekly(df) ==
    IF df = <<>> THEN <<>>
    ELSE LET first == WeekEnd(MinDate(df))
             n     == ((WeekEnd(MaxDate(df)) - first) \div 7) + 1
         IN  [k \in 1..n |->
                LET end  == first + 7 * (k - 1)
                    rows == InWeek(df, end)
                IN  [Date   |-> end,
                     Open   |-> AggFirst(rows, "Open"),
                     High   |-> AggMax(rows, "High"),
                     Low    |-> AggMin(rows, "Low"),
                     Close  |-> AggLast(rows, "Close"),
                     Volume |-> AggSum(rows, "Volume")]]

\* the GREEN / RED classification of one bar (indicators.py line 140, 150)
BarStatus(close, st) == IF RGt(close, st) THEN "GREEN" ELSE "RED"

\* fault model: the backward loop without its stop at an undefined Supertrend
RECURSIVE StreakThroughNaN(_, _, _)
StreakThroughNaN(df, i, current_status) ==
    IF i = 0 THEN 0
    ELSE IF BarStatus(df[i].Close, df[i].Supertrend) = current_status
         THEN 1 + StreakThroughNaN(df, i - 1, current_status)
         ELSE 0

\* the backward loop of calculate_consecutive_streak (line 143-155), from bar i
RECURSIVE StreakFrom(_, _, _)
StreakFrom(df, i, current_status) ==
    IF i = 0 THEN 0
    ELSE IF IsNaN(df[i].Supertrend) THEN 0
    ELSE IF BarStatus(df[i].Close, df[i].Supertrend) = current_status
         THEN 1 + StreakFrom(df, i - 1, current_status)
         ELSE 0

\* calculate_consecutive_streak: (streak_count, streak_direction)
calculate_consecutive_streak(df) ==
    IF Len(df) = 0 THEN <<0, "UNKNOWN">>
    ELSE IF IsNaN(df[Len(df)].Supertrend) THEN <<0, "UNKNOWN">>
    ELSE LET current_status == BarStatus(df[Len(df)].Close, df[Len(df)].Supertrend)
         IN  <<StreakFrom(df, Len(df), current_status), current_status>>

\* EMA span of add_indicators (indicators.py line 185)
EmaSpan == 50

\* look-back window of Recent_High (indicators.py line 198)
Lookback == 10

\* Close.rolling(window).max(): undefined until `window` observations exist
\* (and wherever the window holds a missing value)
RollingMax(s, window) ==
    [i \in 1..Len(s) |->
        IF i < window \/ \E j \in (i - window + 1)..i : IsNaN(s[j]) THEN NaN
        ELSE CHOOSE m \in {s[j] : j \in (i - window + 1)..i} :
                 \A j \in (i - window + 1)..i : RGe(m, s[j])]

\* fault model: the buy signal without its EMA test
SignalAtNoEma(close, supertrend, ema, i) ==
    IF i = 1 THEN 0
    ELSE IF /\ RLe(close[i - 1], supertrend[i - 1])
            /\ RGt(close[i], supertrend[i])
         THEN 1
    ELSE IF /\ RGe(close[i - 1], supertrend[i - 1])
            /\ RLt(close[i], supertrend[i])
         THEN -1
    ELSE 0

\* fault model: the loop starting at bar 0, whose previous bar iloc[-1] is
\* the last bar of the frame
SignalAtFromZero(close, supertrend, ema, i) ==
    LET prev == IF i = 1 THEN Len(close) ELSE i - 1
    IN  IF /\ RLe(close[prev], supertrend[prev])
           /\ RGt(close[i], supertrend[i])
           /\ RGt(close[i], ema[i])
        THEN 1
        ELSE IF /\ RGe(close[prev], supertrend[prev])
                /\ RLt(close[i], supertrend[i])
        THEN -1
        ELSE 0

\* the body of the signal loop (indicators.py line 213-233) for bar i
SignalAt(close, supertrend, ema, i) ==
    IF i = 1 THEN 0
    ELSE IF /\ RLe(close[i - 1], supertrend[i - 1])
            /\ RGt(close[i], supertrend[i])
            /\ RGt(close[i], ema[i])
         THEN 1
    ELSE IF /\ RGe(close[i - 1], supertrend[i - 1])
            /\ RLt(close[i], supertrend[i])
         THEN -1
    ELSE 0

\* fault model: add_indicators leaving alone the indicator columns the frame
\* came with
AddIndicatorsKeepCached(df, period, multiplier, timeframe) ==
    LET df_copy == IF timeframe = "1W" THEN resample_to_weekly(df) ELSE df
        close   == Column(df_copy, "Close")
        ema     == calculate_ema(close, EmaSpan)
        st      == calculate_supertrend(Column(df_copy, "High"), Column(df_copy, "Low"),
                                        close, period, multiplier)
        recent  == RollingMax(close, Lookback)
    IN  [i \in 1..Len(df_copy) |->
            df_copy[i] @@
            [EMA_50       |-> ema[i],
             Supertrend   |-> st.supertrend[i],
             ST_Upper     |-> st.final_ub[i],
             ST_Lower     |-> st.final_lb[i],
             Recent_High  |-> recent[i],
             Pullback_Pct |-> Round2(RMul(RDiv(RSub(recent[i], close[i]), recent[i]),
                                          R(100))),
             Signal       |-> SignalAt(close, st.supertrend, ema, i)]]

\* add_indicators: the frame (optionally resampled to weekly) with the
\* indicator columns added; columns of the same name are overwritten.
\* EMA_Distance_Pct and In_Uptrend (line 205, 208) are read by no caller
\* modelled here and are left out.
add_indicators(df, period, multiplier, timeframe) ==
    LET df_copy == IF timeframe = "1W" THEN resample_to_weekly(df) ELSE df
        close   == Column(df_copy, "Close")
        ema     == calculate_ema(close, EmaSpan)
        st      == calculate_supertrend(Column(df_copy, "High"), Column(df_copy, "Low"),
                                        close, period, multiplier)
        recent  == RollingMax(close, Lookback)
    IN  [i \in 1..Len(df_copy) |->
            [EMA_50       |-> ema[i],
             Supertrend   |-> st.supertrend[i],
             ST_Upper     |-> st.final_ub[i],
             ST_Lower     |-> st.final_lb[i],
             Recent_High  |-> recent[i],
             Pullback_Pct |-> Round2(RMul(RDiv(RSub(recent[i], close[i]), recent[i]),
                                          R(100))),
             Signal       |-> SignalAt(close, st.supertrend, ema, i)]
            @@ df_copy[i]]

----------------------------------------------------------------------------
(* database.py: the store of cached bars.                                  *)

\* Python's None: the value of row.get(key) for a column the row lacks
None == [n |-> 0, d |-> -1]

\* the day the screen runs: SQLite's date('now') as a day number (a Friday)
Today == 123

Rep(x, n) == [i \in 1..n |-> x]

\* The cached histories.  A history is a run of consecutive daily bars ending
\* `age` days before today; `shape` gives the bars around the price `base`:
\*   "f" flat at base            "D" low = base, high = base + 1
\*   "T" low = base - 3, high = base   "X" low = base, high = base + 8
\*   "d" close one below base (low = close, high = base)
\* Every bar trades `volume` shares except the last (`last_volume`).
\* `readable` is FALSE for rows whose read raises: insert_dataframe stores
\* str(Date) of a date without strftime, which pd.to_datetime may not parse.
Histories ==
    <<[name |-> "short", shape |-> Rep("f", 5), base |-> 3, volume |-> 3,
       last_volume |-> 3, age |-> 0, readable |-> TRUE],
      [name |-> "green", shape |-> Rep("f", 7) \o <<"D", "D", "T", "f", "f">>, base |-> 5,
       volume |-> 2, last_volume |-> 2, age |-> 0, readable |-> TRUE],
      [name |-> "red8", shape |-> Rep("f", 7) \o <<"D", "D", "T", "X">> \o Rep("f", 7),
       base |-> 4, volume |-> 4, last_volume |-> 4, age |-> 0, readable |-> TRUE],
      [name |-> "red12", shape |-> Rep("f", 7) \o <<"D", "D", "T", "X">> \o Rep("f", 11),
       base |-> 5, volume |-> 5, last_volume |-> 5, age |-> 0, readable |-> TRUE],
      [name |-> "pull", shape |-> Rep("f", 7) \o <<"D", "D", "T", "f", "d">>, base |-> 5,
       volume |-> 3, last_volume |-> 6, age |-> 0, readable |-> TRUE],
      [name |-> "stale", shape |-> Rep("f", 12), base |-> 3, volume |-> 7,
       last_volume |-> 7, age |-> 95, readable |-> TRUE],
      [name |-> "bad", shape |-> Rep("f", 12), base |-> 3, volume |-> 6,
       last_volume |-> 6, age |-> 0, readable |-> FALSE],
      [name |-> "flat", shape |-> Rep("f", 12), base |-> 3, volume |-> 1,
       last_volume |-> 1, age |-> 0, readable |-> TRUE]>>

HistoryIds == 1..Len(Histories)

\* the i-th fetched bar of a history as a frame row
FetchedRow(h, i) ==
    LET c == h.base
        s == h.shape[i]
        n == Len(h.shape)
    IN  [Date   |-> Today - h.age - (n - i),
         Open   |-> R(c),
         High   |-> R(IF s = "D" THEN c + 1 ELSE IF s = "X" THEN c + 8 ELSE c),
         Low    |-> R(IF s = "T" THEN c - 3 ELSE IF s = "d" THEN c - 1 ELSE c),
         Close  |-> R(IF s = "d" THEN c - 1 ELSE c),
         Volume |-> IF i = n THEN h.last_volume ELSE h.volume]

\* ATR period and multiplier that add_indicators defaults to
DefaultPeriod == 10

DefaultMultiplier == 3

\* the rows of etf_data written for the frame df (database.py line 143-171)
StoredRows(df) ==
    [i \in 1..Len(df) |->
        [date |-> df[i].Date, open |-> df[i].Open, high |-> df[i].High,
         low |-> df[i].Low, close |-> df[i].Close, volume |-> df[i].Volume,
         ema_50 |-> df[i].EMA_50, supertrend |-> df[i].Supertrend,
         st_upper |-> df[i].ST_Upper, st_lower |-> df[i].ST_Lower,
         signal |-> df[i].Signal]]

\* insert_dataframe: the rows of etf_data written for one ticker, from the
\* fetched frame after add_indicators(df) (main.py line 261-265)
insert_dataframe(h) ==
    StoredRows(add_indicators([i \in 1..Len(h.shape) |-> FetchedRow(h, i)],
                              DefaultPeriod, R(DefaultMultiplier), "1D"))

\* the table etf_data, per cached history
etf_data == [h \in HistoryIds |-> insert_dataframe(Histories[h])]

\* WHERE date >= date('now', '-n_days days')
InWindow(rows, n_days) == SelectSeq(rows, LAMBDA r : r.date >= Today - n_days)

\* the frame read from the selected rows, under the frame's column names
FrameOf(ticker, rows) ==
    [i \in 1..Len(rows) |->
        [ticker |-> ticker, Date |-> rows[i].date, Open |-> rows[i].open,
         High |-> rows[i].high, Low |-> rows[i].low, Close |-> rows[i].close,
         Volume |-> rows[i].volume, EMA_50 |-> rows[i].ema_50,
         Supertrend |-> rows[i].supertrend, Signal |-> rows[i].signal]]

\* get_ticker_data: the rows of the ticker dated within the last `n_days`
\* days, ascending, under the frame's column names; `raised` when the read
\* raises instead of returning
get_ticker_data(store, ticker, n_days) ==
    [raised |-> ~Histories[store[ticker]].readable,
     df     |-> FrameOf(ticker, InWindow(etf_data[store[ticker]], n_days))]

\* the GROUP BY row of query_by_volume for a ticker whose rows are `all`: the
\* bars in the window, their average volume (none without a bar) and the
\* columns of the ticker's latest bar (max_volume, min_volume, open and
\* latest_price are read by the printer only)
GroupRow(ticker, all, min_days) ==
    LET Grouped(rows) ==
            [ticker     |-> ticker,
             days_count |-> Len(rows),
             avg_volume |-> IF rows = <<>> THEN NaN
                            ELSE Frac(AggSum(rows, "volume"), Len(rows)),
             close      |-> all[Len(all)].close,
             ema_50     |-> all[Len(all)].ema_50,
             supertrend |-> all[Len(all)].supertrend]
    IN  Grouped(InWindow(all, min_days))

VolumeRow(store, ticker, min_days) == GroupRow(ticker, etf_data[store[ticker]], min_days)

\* HAVING AVG(d.volume) >= ? ORDER BY avg_volume DESC over the GROUP BY rows.
\* SQL leaves the order of equal averages open, so this is the set of frames
\* the query may return.
HavingOrdered(groups, min_vol) ==
    LET hit == {t \in DOMAIN groups :
                   /\ groups[t].days_count > 0
                   /\ RGe(groups[t].avg_volume, R(min_vol))}
        ord == {o \in [1..Cardinality(hit) -> hit] :
                   /\ \A i, j \in DOMAIN o : i # j => o[i] # o[j]
                   /\ \A i, j \in DOMAIN o :
                          i < j => RGe(groups[o[i]].avg_volume, groups[o[j]].avg_volume)}
    IN  {[i \in DOMAIN o |-> groups[o[i]]] : o \in ord}

\* query_by_volume: the tickers with a bar in the window whose average volume
\* is at least min_volume, by descending average volume
query_by_volume(store, min_days, min_vol) ==
    HavingOrdered([t \in DOMAIN store |-> VolumeRow(store, t, min_days)], min_vol)

----------------------------------------------------------------------------
(* screener.py, screener_api.py, main.py: the screening pipeline.          *)

\* fault model: the query always looks ten days back
ScreenTenDays(store, min_days, min_avg_volume, limit) ==
    query_by_volume(store, 10, min_avg_volume)

\* fault model: the frame is cut to its first row whatever max_results is
ScreenTopOne(store, min_days, min_avg_volume, limit) ==
    {SubSeq(frame, 1, IF Len(frame) < 1 THEN Len(frame) ELSE 1) :
        frame \in query_by_volume(store, min_days, min_avg_volume)}

\* ETFScreener.screen_by_volume: the query's frame, cut to its first
\* max_results rows when max_results is true (`limit` is max_results: <<>> for
\* None, else <<n>>)
screen_by_volume(store, min_days, min_avg_volume, limit) ==
    IF limit # <<>> /\ limit[1] # 0
    THEN {SubSeq(frame, 1, IF Len(frame) < limit[1] THEN Len(frame) ELSE limit[1]) :
             frame \in query_by_volume(store, min_days, min_avg_volume)}
    ELSE query_by_volume(store, min_days, min_avg_volume)

\* Screener.__init__: no filter configured.  An unset filter is the empty
\* sequence, a set one the sequence holding its configuration; `conditions`
\* is the dict as the sequence of its (field, ops_list) items in insertion order
NoFilters == [supertrend |-> <<>>, swing |-> <<>>, conditions |-> <<>>, red_streak |-> 0]

\* fault model: any colour and timeframe is taken
AnySupertrend(color, timeframe) == TRUE

\* fault model: the weekly timeframe is refused
DailyOnly(color, timeframe) == color \in {"green", "red"} /\ timeframe = "1D"

\* the enum checks of filter_supertrend (line 87-90): FALSE when it raises
ValidSupertrend(color, timeframe) ==
    color \in {"green", "red"} /\ timeframe \in {"1D", "1W"}

\* filter_supertrend with arguments that pass the checks
filter_supertrend(self, color, timeframe, period, multiplier) ==
    [self EXCEPT !.supertrend = <<[color |-> color, timeframe |-> timeframe,
                                   period |-> period, multiplier |-> multiplier]>>]

filter_red_streak(self, min_days) == [self EXCEPT !.red_streak = min_days]

filter_swing(self, min_pullback, max_ema_distance) ==
    [self EXCEPT !.swing = <<[min_pullback |-> min_pullback,
                              max_ema_distance |-> max_ema_distance]>>]

\* fault model: the pairs of a call are added to the pairs the field has
AddConditionExtends(self, field, conditions) ==
    IF conditions = <<>> THEN self
    ELSE IF \E i \in 1..Len(self.conditions) : self.conditions[i][1] = field
    THEN [self EXCEPT !.conditions =
             [i \in 1..Len(@) |-> IF @[i][1] = field
                                  THEN <<field, @[i][2] \o conditions>> ELSE @[i]]]
    ELSE [self EXCEPT !.conditions = Append(@, <<field, conditions>>)]

\* fault model: a field call drops the lists of the other fields
AddConditionAlone(self, field, conditions) ==
    IF conditions = <<>> THEN self
    ELSE [self EXCEPT !.conditions = <<<<field, conditions>>>>]

\* _add_condition: conditions[field] = the given (op, threshold) pairs, when
\* there is at least one
add_condition(self, field, conditions) ==
    IF conditions = <<>> THEN self
    ELSE IF \E i \in 1..Len(self.conditions) : self.conditions[i][1] = field
    THEN [self EXCEPT !.conditions =
             [i \in 1..Len(@) |-> IF @[i][1] = field THEN <<field, conditions>> ELSE @[i]]]
    ELSE [self EXCEPT !.conditions = Append(@, <<field, conditions>>)]

\* tolerance of the eq / ne operators (main.py line 88, 90): 0.0001
Tolerance == Frac(1, 10000)

\* fault model: eq / ne by exact equality, without the tolerance
EvaluateExactEq(value, operator, threshold) ==
    IF value = None \/ IsNaN(value) THEN FALSE
    ELSE IF operator = "gt"  THEN RGt(value, R(threshold))
    ELSE IF operator = "gte" THEN RGe(value, R(threshold))
    ELSE IF operator = "lt"  THEN RLt(value, R(threshold))
    ELSE IF operator = "lte" THEN RLe(value, R(threshold))
    ELSE IF operator = "eq"  THEN value = R(threshold)
    ELSE IF operator = "ne"  THEN value # R(threshold)
    ELSE FALSE

\* evaluate_condition (main.py line 61-92); pd.isna holds of None and of NaN
evaluate_condition(value, operator, threshold) ==
    IF value = None \/ IsNaN(value) THEN FALSE
    ELSE IF operator = "gt"  THEN RGt(value, R(threshold))
    ELSE IF operator = "gte" THEN RGe(value, R(threshold))
    ELSE IF operator = "lt"  THEN RLt(value, R(threshold))
    ELSE IF operator = "lte" THEN RLe(value, R(threshold))
    ELSE IF operator = "eq"  THEN RLt(RAbs(RSub(value, R(threshold))), Tolerance)
    ELSE IF operator = "ne"  THEN RGe(RAbs(RSub(value, R(threshold))), Tolerance)
    ELSE FALSE

\* row.get(key): the column's value, None when the row has no such column
Get(row, key) == IF key \in DOMAIN row THEN row[key] ELSE None

\* truth value of a float or None: None and 0.0 are false, NaN is true
Truthy(x) == x # None /\ (IsNaN(x) \/ x.n # 0)

\* Python's `a or b`
Or(a, b) == IF Truthy(a) THEN a ELSE b

\* the value a condition on `field` is evaluated against (screener_api.py
\* line 343-351, main.py line 419-427)
FieldValue(row, field) ==
    IF field = "close" THEN Or(Get(row, "close"), Get(row, "Close"))
    ELSE IF field = "ema"
    THEN Or(Or(Get(row, "ema"), Get(row, "EMA_50")), Get(row, "ema_50"))
    ELSE IF field = "pullback" THEN Or(Get(row, "pullback"), Get(row, "Pullback_Pct"))
    ELSE IF field = "volume"
    THEN Or(Or(Get(row, "volume"), Get(row, "Avg Vol")), Get(row, "avg_vol"))
    ELSE None

\* fault model: a row passes when one of the pairs is met
PassesAny(row, field, ops_list) ==
    \E i \in 1..Len(ops_list) :
        /\ FieldValue(row, field) # None
        /\ evaluate_condition(FieldValue(row, field), ops_list[i][1], ops_list[i][2])

\* the loop over ops_list: passes_all stays True iff every pair is met by a
\* field value that is not None
PassesAll(row, field, ops_list) ==
    \A i \in 1..Len(ops_list) :
        /\ FieldValue(row, field) # None
        /\ evaluate_condition(FieldValue(row, field), ops_list[i][1], ops_list[i][2])

\* fewest bars of history a candidate needs (len(hist_df) < 10)
MinBars == 10

\* days of history the trend stage reads for the daily / weekly timeframe
DaysDaily == 60

DaysWeekly == 90

\* days of history the condition stage reads
DaysConditions == 90

\* the (period, multiplier, timeframe) triples the pipeline recomputes with
ParamSets == {<<10, 3, "1D">>, <<3, 1, "1W">>}

\* add_indicators(hist_df, period, multiplier, timeframe) of a frame with
\* enough bars
Recompute(hist_df, ps) ==
    IF Len(hist_df) < MinBars THEN <<>>
    ELSE add_indicators(hist_df, ps[1], R(ps[2]), ps[3])

\* add_indicators(get_ticker_data(ticker, n_days), period, multiplier,
\* timeframe), tabulated per cached history
Recomputed ==
    [h \in HistoryIds, n_days \in {DaysDaily, DaysWeekly}, ps \in ParamSets |->
        Recompute(get_ticker_data([t \in {0} |-> h], 0, n_days).df, ps)]

\* st_config of the running call: the configured Supertrend filter, else the
\* defaults (screener_api.py line 327-329)
StConfig(f) ==
    IF f.supertrend # <<>> THEN f.supertrend[1]
    ELSE [color |-> "none", timeframe |-> "1D", period |-> DefaultPeriod,
          multiplier |-> DefaultMultiplier]

\* fault model: the kept row put in front of the rows kept before
KeepRowFirst(filtered_results, row) == <<row>> \o filtered_results

\* filtered_results.append(row)
KeepRow(filtered_results, row) == Append(filtered_results, row)

\* fault model: `break`, the loop ends with this candidate
LeaveLoop(i, n) == n + 1

\* `continue`: the loop goes on with the next candidate of the n
NextCandidate(i, n) == i + 1

\* fault model: the trend stage without its red-streak test
TrendKeepsAnyStreak(color, red_streak, latest, streak_days) ==
    \/ color = "green" /\ RGt(latest.Close, latest.Supertrend)
    \/ color = "red" /\ RLe(latest.Close, latest.Supertrend)

\* the colour test and the red-streak test of the trend stage
\* (screener_api.py line 289-301, main.py line 360-371)
TrendKeeps(color, red_streak, latest, streak_days) ==
    IF color = "green" /\ RGt(latest.Close, latest.Supertrend) THEN TRUE
    ELSE IF color = "red" /\ RLe(latest.Close, latest.Supertrend)
    THEN streak_days >= red_streak
    ELSE FALSE

\* one pass of the trend stage's loop body: filtered_results after `row`
TrendOutcome(store, f, filtered_results, row) ==
    LET st_config == f.supertrend[1]
        n_days    == IF st_config.timeframe = "1W" THEN DaysWeekly ELSE DaysDaily
        Judge(latest, streak) ==
            IF TrendKeeps(st_config.color, f.red_streak, latest, streak[1])
            THEN KeepRow(filtered_results,
                         ("streak_days" :> streak[1]) @@ ("streak_status" :> streak[2]) @@ row)
            ELSE filtered_results
        Recalc(hist_df) ==
            Judge(hist_df[Len(hist_df)], calculate_consecutive_streak(hist_df))
        Fetched(lookup) ==
            IF lookup.raised THEN filtered_results
            ELSE IF Len(lookup.df) < MinBars THEN filtered_results
            ELSE Recalc(Recomputed[store[row.ticker], n_days,
                                   <<st_config.period, st_config.multiplier,
                                     st_config.timeframe>>])
    IN  Fetched(get_ticker_data(store, row.ticker, n_days))

\* the row with the columns of the latest recomputed bar (screener_api.py
\* line 333-336, main.py line 404-411)
WithLatest(m, row, latest) ==
    LET row1 == ("close" :> latest.Close) @@ ("ema" :> latest.EMA_50) @@
                ("supertrend" :> latest.Supertrend) @@ row
        row2 == IF m = "cli" /\ "Pullback_Pct" \in DOMAIN latest
                THEN ("pullback" :> latest.Pullback_Pct) @@ row1
                ELSE row1
    IN  IF m = "cli" /\ ("avg_vol" \in DOMAIN row2 \/ "Avg Vol" \in DOMAIN row2)
        THEN ("volume" :> (IF "avg_vol" \in DOMAIN row2
                           THEN row2["avg_vol"] ELSE row2["Avg Vol"])) @@ row2
        ELSE row2

\* the indicator fetch of the condition stage (screener_api.py line 321-338,
\* main.py line 396-413): the row with the recomputed columns, or `dropped`
FetchIndicators(store, f, m, row) ==
    LET cfg == StConfig(f)
        Recalc(hist_df) ==
            [dropped |-> FALSE, row |-> WithLatest(m, row, hist_df[Len(hist_df)])]
        Fetched(lookup) ==
            IF lookup.raised \/ Len(lookup.df) < MinBars
            THEN [dropped |-> TRUE, row |-> row]
            ELSE Recalc(Recomputed[store[row.ticker], DaysConditions,
                                   <<cfg.period, cfg.multiplier, cfg.timeframe>>])
    IN  Fetched(get_ticker_data(store, row.ticker, DaysConditions))

\* one pass of the condition stage's loop body for `field`
CondOutcome(store, f, m, filtered_results, row, field, ops_list) ==
    LET Checked(fetch) ==
            IF fetch.dropped THEN filtered_results
            ELSE IF PassesAll(fetch.row, field, ops_list)
            THEN KeepRow(filtered_results, fetch.row)
            ELSE filtered_results
    IN  Checked(IF field \notin DOMAIN row \/ IsNaN(row[field])
                THEN FetchIndicators(store, f, m, row)
                ELSE [dropped |-> FALSE, row |-> row])

----------------------------------------------------------------------------
(* Indicator engine: add_indicators applied to a bounded daily series.     *)

\* longest input series
MaxBars == 4

\* price levels of the input bars
Levels == {1, 3, 4}

\* the (low, high) ranges of the input bars: flat bars and two wide ones
Ranges == {<<l, l>> : l \in Levels} \cup {<<1, 3>>, <<3, 4>>}

\* one daily bar: low <= close <= high, the close at one end of the range
BarShapes ==
    {[Open |-> r[1], High |-> r[2], Low |-> r[1], Close |-> c, Volume |-> 1] :
        <<r, c>> \in {t \in Ranges \X Levels : t[2] \in {t[1][1], t[1][2]}}}

\* (period, multiplier) pairs of the Supertrend
StParams == {<<1, 0>>, <<2, 1>>, <<3, 1>>}

RECURSIVE SeqsUpTo(_, _)
SeqsUpTo(S, n) ==
    IF n = 0 THEN {<<>>}
    ELSE LET shorter == SeqsUpTo(S, n - 1)
         IN  shorter \cup {Append(q, x) : q \in {r \in shorter : Len(r) = n - 1}, x \in S}

\* a stored bar as a frame row: prices as floats, the date a day number
ToRow(bar, date) ==
    [Date |-> date, Open |-> R(bar.Open), High |-> R(bar.High), Low |-> R(bar.Low),
     Close |-> R(bar.Close), Volume |-> bar.Volume]

ToFrame(bars) == [i \in 1..Len(bars) |-> ToRow(bars[i], i)]

IndIdle ==
    /\ series = <<>>
    /\ st_period = 1
    /\ st_multiplier = 0
    /\ ind = <<>>
    /\ ipc = "idle"

StreakIdle == sdf = <<>> /\ sres = <<0, "UNKNOWN">> /\ spc = "idle"

WeeklyIdle == daily = <<>> /\ weekly = <<>> /\ wpc = "idle"

ScreenIdle ==
    /\ db = <<>>
    /\ mode = "idle"
    /\ filters = NoFilters
    /\ min_volume = 0
    /\ days = 0
    /\ pc = "idle"
    /\ results = <<>>
    /\ filtered = <<>>
    /\ idx = 1
    /\ fidx = 1
    /\ volume_out = <<>>
    /\ ret = "idle"

CondIdle == cvalue = [n |-> 0, d |-> 1] /\ cthreshold = 0 /\ cresult = <<>> /\ cpc = "idle"

\* no builder call made, no collaborator call issued
BuildIdle == calls = <<>> /\ queries = <<>> /\ lookups = <<>> /\ max_results = <<>>

\* no execute() call has returned
ReuseIdle == runs = 0 /\ first_run = <<>>

\* no ETFDiscovery object built
DiscIdle ==
    /\ working_etfs = {} /\ blacklist = {} /\ etfs_file = {} /\ blacklist_file = {}
    /\ dpc = "idle" /\ pending = <<>> /\ futures = {} /\ max_workers = 0 /\ nops = 0

\* no insert call made, no batch started, no run repeated, no discovery
CacheIdle ==
    /\ table = {} /\ seq = 0 /\ cache_df = <<>> /\ last_calls = <<>> /\ ninserts = 0
    /\ to_fetch = <<>> /\ fetched = <<>> /\ failures = {}
    /\ ReuseIdle /\ DiscIdle

ExtIdle == CondIdle /\ BuildIdle /\ CacheIdle

CoreIdle == IndIdle /\ StreakIdle /\ WeeklyIdle /\ ScreenIdle

IndInit ==
    /\ series \in SeqsUpTo(BarShapes, MaxBars)
    /\ \E pm \in StParams : st_period = pm[1] /\ st_multiplier = pm[2]
    /\ ind = <<>>
    /\ ipc = "input"
    /\ StreakIdle
    /\ WeeklyIdle
    /\ ScreenIdle
    /\ ExtIdle

\* the caller runs add_indicators on the daily series
AddIndicators ==
    /\ ipc = "input"
    /\ ind' = add_indicators(ToFrame(series), st_period, R(st_multiplier), "1D")
    /\ ipc' = "done"
    /\ UNCHANGED <<series, st_period, st_multiplier>>
    /\ UNCHANGED <<streakVars, weeklyVars, screenVars>>
    /\ UNCHANGED extVars

IndNext == AddIndicators

SpecIndicators == IndInit /\ [][IndNext]_vars

BothBandsDefined(row) == ~IsNaN(row.ST_Upper) /\ ~IsNaN(row.ST_Lower)

\* C1: for every series with high >= low at every bar and a non-negative
\* multiplier, at every bar where both final bands are defined the upper band
\* is not below the lower band
C1_UpperNotBelowLower ==
    ipc = "done" =>
        \A i \in 1..Len(ind) :
            BothBandsDefined(ind[i]) => RGe(ind[i].ST_Upper, ind[i].ST_Lower)

\* C2: for every bar i > 0 of the frame returned by add_indicators the signal
\* is +1 iff close crossed from <= supertrend to > supertrend and close > ema,
\* -1 iff close crossed from >= supertrend to < supertrend, and 0 otherwise
C2_SignalIffCrossing ==
    ipc = "done" =>
        \A i \in 2..Len(ind) :
            LET buy  == /\ RLe(ind[i - 1].Close, ind[i - 1].Supertrend)
                        /\ RGt(ind[i].Close, ind[i].Supertrend)
                        /\ RGt(ind[i].Close, ind[i].EMA_50)
                sell == /\ RGe(ind[i - 1].Close, ind[i - 1].Supertrend)
                        /\ RLt(ind[i].Close, ind[i].Supertrend)
            IN  /\ ind[i].Signal = 1 <=> buy
                /\ ind[i].Signal = -1 <=> sell
                /\ ind[i].Signal = 0 <=> (~buy /\ ~sell)

\* a series on which a buy and, later, a sell signal were produced
C2_Witness ==
    /\ ipc = "done"
    /\ \E i, j \in 2..Len(ind) : ind[i].Signal = 1 /\ ind[j].Signal = -1

\* C3: every value of the Signal column is one of -1, 0, 1 and the signal of
\* bar 0 is 0
C3_SignalRange ==
    ipc = "done" =>
        /\ \A i \in 1..Len(ind) : ind[i].Signal \in {-1, 0, 1}
        /\ Len(ind) > 0 => ind[1].Signal = 0

\* a series whose first bar closes above its Supertrend (so a crossing test
\* against a previous bar would fire) and that has a non-zero signal later
C3_Witness ==
    /\ ipc = "done"
    /\ Len(ind) >= 2
    /\ RGt(ind[1].Close, ind[1].Supertrend)
    /\ ind[1].Signal = 0
    /\ \E i \in 2..Len(ind) : ind[i].Signal # 0

----------------------------------------------------------------------------
(* Streak detector: calculate_consecutive_streak applied to a bounded      *)
(* frame whose Supertrend column may hold missing values.                  *)

\* longest frame scanned
MaxStreakBars == 4

StreakRows ==
    {[Close |-> R(c), Supertrend |-> st] : c \in {1, 2}, st \in {R(1), R(2), NaN}}

StreakInit ==
    /\ sdf \in SeqsUpTo(StreakRows, MaxStreakBars)
    /\ sres = <<0, "UNKNOWN">>
    /\ spc = "input"
    /\ IndIdle
    /\ WeeklyIdle
    /\ ScreenIdle
    /\ ExtIdle

\* the caller runs calculate_consecutive_streak on the frame
CalcStreak ==
    /\ spc = "input"
    /\ sres' = calculate_consecutive_streak(sdf)
    /\ spc' = "done"
    /\ UNCHANGED <<sdf, indVars, weeklyVars, screenVars>>
    /\ UNCHANGED extVars

StreakNext == CalcStreak

SpecStreak == StreakInit /\ [][StreakNext]_vars

Classified(df, i, c) ==
    ~IsNaN(df[i].Supertrend) /\ BarStatus(df[i].Close, df[i].Supertrend) = c

----------------------------------------------------------------------------
(* Resampler: resample_to_weekly applied to a bounded daily frame.         *)

\* most daily bars in the frame
MaxDaily == 3

\* the days a bar may fall on: Mon, Fri, Sun of week 1, Mon, Sun of week 2,
\* Mon of week 4 (so week 3 can stay empty)
DaySet == {0, 4, 6, 7, 13, 21}

DailyShapes ==
    {[Open |-> 1, High |-> 3, Low |-> 1, Close |-> 3, Volume |-> 1],
     [Open |-> 3, High |-> 4, Low |-> 3, Close |-> 3, Volume |-> 2],
     [Open |-> 4, High |-> 4, Low |-> 1, Close |-> 1, Volume |-> 5]}

\* frames as the store returns them: ascending, one bar per date
DailyFrames ==
    {f \in SeqsUpTo(DaySet \X DailyShapes, MaxDaily) :
        \A i \in 1..(Len(f) - 1) : f[i][1] < f[i + 1][1]}

WeeklyInit ==
    /\ \E f \in DailyFrames : daily = [i \in 1..Len(f) |-> ToRow(f[i][2], f[i][1])]
    /\ weekly = <<>>
    /\ wpc = "input"
    /\ IndIdle
    /\ StreakIdle
    /\ ScreenIdle
    /\ ExtIdle

\* the caller runs resample_to_weekly on the daily frame
Resample ==
    /\ wpc = "input"
    /\ weekly' = resample_to_weekly(daily)
    /\ wpc' = "done"
    /\ UNCHANGED <<daily, indVars, streakVars, screenVars>>
    /\ UNCHANGED extVars

WeeklyNext == Resample

SpecWeekly == WeeklyInit /\ [][WeeklyNext]_vars

\* the indices of the daily bars of the calendar week (Mon..Sun) ending `end`
DaysOfWeek(end) == {i \in 1..Len(daily) : end - 6 <= daily[i].Date /\ daily[i].Date <= end}

RECURSIVE SumVolume(_)
SumVolume(I) ==
    IF I = {} THEN 0
    ELSE LET i == CHOOSE x \in I : TRUE IN daily[i].Volume + SumVolume(I \ {i})

\* C5: the daily bars are grouped by calendar week ending Sunday; per week
\* volume = sum, high = max, low = min, open = open of the first bar and
\* close = close of the last bar of the week
C5_WeeklyAggregates ==
    wpc = "done" =>
        /\ \A i \in 1..Len(daily) :
              \E k \in 1..Len(weekly) : i \in DaysOfWeek(weekly[k].Date)
        /\ \A k \in 1..Len(weekly) :
              LET w == weekly[k]
                  I == DaysOfWeek(w.Date)
              IN  /\ w.Date % 7 = 6
                  /\ k > 1 => w.Date = weekly[k - 1].Date + 7
                  /\ w.Volume = SumVolume(I)
                  /\ I # {} =>
                        /\ \A i \in I : RGe(w.High, daily[i].High) /\ RLe(w.Low, daily[i].Low)
                        /\ \E i \in I : w.High = daily[i].High
                        /\ \E i \in I : w.Low = daily[i].Low
                        /\ \E i \in I : (\A j \in I : i <= j) /\ w.Open = daily[i].Open
                        /\ \E i \in I : (\A j \in I : i >= j) /\ w.Close = daily[i].Close

\* two bars in one week (Monday and Sunday) and a third in a later week
C5_Witness ==
    /\ wpc = "done"
    /\ Len(weekly) >= 2
    /\ \E k \in 1..Len(weekly) :
          /\ Cardinality(DaysOfWeek(weekly[k].Date)) = 2
          /\ weekly[k].Volume = 6
          /\ weekly[k].Open # weekly[k].Close

----------------------------------------------------------------------------
(* Screening pipeline: Screener.execute ("api") and screen_etfs ("cli") run *)
(* over a store of cached histories.                                       *)

\* tickers in the store
NumTickers == 2

Tickers == 1..NumTickers

\* the stores: every ticker holds one of the cached histories (tickers are
\* interchangeable, so the histories are taken in index order)
Stores ==
    {s \in [Tickers -> HistoryIds] : \A t \in 1..(NumTickers - 1) : s[t] <= s[t + 1]}

\* the Supertrend filters a run is configured with
TrendSpecs ==
    {NoFilters,
     filter_supertrend(NoFilters, "green", "1D", 10, 3),
     filter_red_streak(filter_supertrend(NoFilters, "red", "1D", 10, 3), 10),
     filter_red_streak(filter_supertrend(NoFilters, "red", "1W", 3, 1), 3)}

\* the condition filters a run is configured with, as (field, ops_list) items
ConditionSpecs ==
    {<<>>,
     <<<<"close", <<<<"gte", 4>>, <<"lte", 4>>>>>>>>,
     <<<<"close", <<<<"eq", 5>>>>>>>>,
     <<<<"ema", <<<<"lt", 5>>>>>>>>,
     <<<<"pullback", <<<<"lte", 5>>>>>>>>,
     <<<<"pullback", <<<<"gte", 10>>>>>>>>,
     <<<<"volume", <<<<"gt", 1>>>>>>>>,
     <<<<"ema", <<<<"lt", 5>>>>>>, <<"close", <<<<"ne", 3>>>>>>>>}

RECURSIVE WithConditions(_, _)
WithConditions(self, items) ==
    IF items = <<>> THEN self
    ELSE WithConditions(add_condition(self, Head(items)[1], Head(items)[2]), Tail(items))

FilterSpecs ==
    {WithConditions(t, c) : t \in TrendSpecs, c \in ConditionSpecs}
        \cup {filter_swing(NoFilters, 2, 5)}

\* (min_volume, days) of the volume stage
ScreenParams == {<<1, 10>>, <<2, 120>>}

\* fault model: a frame that never counts as empty
NeverEmpty(rows) == FALSE

\* DataFrame.empty
Empty(rows) == rows = <<>>

TickersOf(rows) == [i \in 1..Len(rows) |-> rows[i].ticker]

Init ==
    /\ db \in Stores
    /\ mode \in {"api", "cli"}
    /\ filters \in FilterSpecs
    /\ \E sp \in ScreenParams : min_volume = sp[1] /\ days = sp[2]
    /\ pc = "volume"
    /\ results = <<>>
    /\ filtered = <<>>
    /\ idx = 1
    /\ fidx = 1
    /\ volume_out = <<>>
    /\ ret = "running"
    /\ IndIdle
    /\ StreakIdle
    /\ WeeklyIdle
    /\ ExtIdle

\* Step 1: screen by volume; execute returns None on an empty frame
VolumeStage ==
    /\ pc = "volume"
    /\ \E frame \in screen_by_volume(db, days, min_volume, max_results) :
          /\ results' = frame
          /\ volume_out' = TickersOf(frame)
          /\ IF mode = "api" /\ Empty(frame)
             THEN pc' = "done" /\ ret' = "None"
             ELSE pc' = "swing" /\ ret' = ret
    /\ UNCHANGED <<db, mode, filters, min_volume, days, filtered, idx, fidx>>
    /\ UNCHANGED <<indVars, streakVars, weeklyVars>>
    /\ queries' = Append(queries, [min_days |-> days, min_avg_volume |-> min_volume])
    /\ UNCHANGED <<cvalue, cthreshold, cresult, cpc, max_results, calls, lookups, cacheVars, batchVars, reuseVars, discVars>>

\* Step 2: the swing filter.  ETFScreener has no method filter_swing_setups,
\* so the call raises AttributeError: execute raises it, screen_etfs catches
\* it in its outer handler and exits with status 1
SwingStage ==
    /\ pc = "swing"
    /\ IF filters.swing # <<>> /\ results # <<>>
       THEN pc' = "done" /\ ret' = (IF mode = "api" THEN "raised" ELSE "exit")
       ELSE pc' = "trend" /\ ret' = ret
    /\ idx' = 1
    /\ filtered' = <<>>
    /\ UNCHANGED <<db, mode, filters, min_volume, days, results, fidx, volume_out>>
    /\ UNCHANGED <<indVars, streakVars, weeklyVars>>
    /\ UNCHANGED extVars

\* Step 3: one pass of the loop of the Supertrend filter
TrendStep ==
    /\ pc = "trend"
    /\ filters.supertrend # <<>>
    /\ results # <<>>
    /\ idx <= Len(results)
    /\ filtered' = TrendOutcome(db, filters, filtered, results[idx])
    /\ idx' = NextCandidate(idx, Len(results))
    /\ UNCHANGED <<db, mode, filters, min_volume, days, pc, results, fidx, volume_out, ret>>
    /\ UNCHANGED <<indVars, streakVars, weeklyVars>>
    /\ lookups' = Append(lookups, <<"trend", results[idx].ticker>>)
    /\ UNCHANGED <<cvalue, cthreshold, cresult, cpc, max_results, calls, queries, cacheVars, batchVars, reuseVars, discVars>>

\* Step 3 ends (or is skipped): results = the rows kept; execute returns None
\* when there are none
TrendEnd ==
    /\ pc = "trend"
    /\ filters.supertrend = <<>> \/ results = <<>> \/ idx > Len(results)
    /\ LET out == IF filters.supertrend # <<>> /\ results # <<>> THEN filtered ELSE results
       IN  /\ results' = out
           /\ IF mode = "api" /\ Empty(out)
              THEN pc' = "done" /\ ret' = "None"
              ELSE IF filters.conditions # <<>> /\ out # <<>>
              THEN pc' = "conds" /\ ret' = ret
              ELSE pc' = "return" /\ ret' = ret
    /\ idx' = 1
    /\ fidx' = 1
    /\ filtered' = <<>>
    /\ UNCHANGED <<db, mode, filters, min_volume, days, volume_out>>
    /\ UNCHANGED <<indVars, streakVars, weeklyVars>>
    /\ UNCHANGED extVars

\* Step 4: one pass of the inner loop of the condition filters
CondStep ==
    /\ pc = "conds"
    /\ idx <= Len(results)
    /\ filtered' = CondOutcome(db, filters, mode, filtered, results[idx],
                               filters.conditions[fidx][1], filters.conditions[fidx][2])
    /\ idx' = NextCandidate(idx, Len(results))
    /\ UNCHANGED <<db, mode, filters, min_volume, days, pc, results, fidx, volume_out, ret>>
    /\ UNCHANGED <<indVars, streakVars, weeklyVars>>
    /\ lookups' = IF filters.conditions[fidx][1] \notin DOMAIN results[idx]
                      \/ IsNaN(results[idx][filters.conditions[fidx][1]])
                   THEN Append(lookups, <<"conds", results[idx].ticker>>)
                   ELSE lookups
    /\ UNCHANGED <<cvalue, cthreshold, cresult, cpc, max_results, calls, queries, cacheVars, batchVars, reuseVars, discVars>>

\* Step 4, end of the inner loop: results = the rows kept for the field; the
\* outer loop goes on with the next field
CondEnd ==
    /\ pc = "conds"
    /\ idx > Len(results)
    /\ results' = filtered
    /\ filtered' = <<>>
    /\ idx' = 1
    /\ fidx' = fidx + 1
    /\ pc' = IF fidx + 1 > Len(filters.conditions) THEN "return" ELSE "conds"
    /\ UNCHANGED <<db, mode, filters, min_volume, days, volume_out, ret>>
    /\ UNCHANGED <<indVars, streakVars, weeklyVars>>
    /\ UNCHANGED extVars

\* execute returns the frame, or None when it is empty; screen_etfs prints it
Return ==
    /\ pc = "return"
    /\ ret' = IF mode = "cli" THEN "printed"
              ELSE IF Empty(results) THEN "None" ELSE "frame"
    /\ pc' = "done"
    /\ UNCHANGED <<db, mode, filters, min_volume, days, results, filtered, idx, fidx,
                   volume_out>>
    /\ UNCHANGED <<indVars, streakVars, weeklyVars>>
    /\ UNCHANGED extVars

Next ==
    \/ VolumeStage
    \/ SwingStage
    \/ TrendStep
    \/ TrendEnd
    \/ CondStep
    \/ CondEnd
    \/ Return

Spec == Init /\ [][Next]_vars

RECURSIVE IsSubseq(_, _)
IsSubseq(a, b) ==
    IF a = <<>> THEN TRUE
    ELSE IF b = <<>> THEN FALSE
    ELSE IF Head(a) = Head(b) THEN IsSubseq(Tail(a), Tail(b))
    ELSE IsSubseq(a, Tail(b))

NoDup(a) == \A i, j \in 1..Len(a) : i # j => a[i] # a[j]

\* C6: after the volume stage every change of the candidate sequence leaves a
\* subsequence of the sequence before it (nothing added, nothing duplicated,
\* survivors in the volume stage's order), and the rows a running loop has
\* kept are a subsequence of the loop's input
C6_StagesOnlyRemove ==
    [][pc # "volume" =>
          /\ IsSubseq(TickersOf(results'), TickersOf(results))
          /\ IsSubseq(TickersOf(results'), volume_out')
          /\ IsSubseq(TickersOf(filtered'), TickersOf(results))
          /\ NoDup(TickersOf(results'))]_vars

\* a run with a trend and a condition filter that ends with two survivors,
\* in the volume stage's order, which is not the order of the store
C6_Witness ==
    /\ pc = "done"
    /\ filters.supertrend # <<>>
    /\ filters.conditions # <<>>
    /\ Len(results) = 2
    /\ TickersOf(results) = volume_out
    /\ volume_out[1] > volume_out[2]

\* the days of history the trend stage reads under the configured filter
TrendDays == IF filters.supertrend[1].timeframe = "1W" THEN DaysWeekly ELSE DaysDaily

\* the frame the trend stage recomputes for a ticker
TrendFrame(t) ==
    Recomputed[db[t], TrendDays,
               <<filters.supertrend[1].period, filters.supertrend[1].multiplier,
                 filters.supertrend[1].timeframe>>]

Kept(t) == \E i \in 1..Len(filtered) : filtered[i].ticker = t

EnoughHistory(t, n_days) ==
    /\ ~get_ticker_data(db, t, n_days).raised
    /\ Len(get_ticker_data(db, t, n_days).df) >= 10

BadLookup(t, n_days) ==
    \/ get_ticker_data(db, t, n_days).raised
    \/ Len(get_ticker_data(db, t, n_days).df) < 10

\* the trend stage run over `rows` alone
RECURSIVE TrendOver(_, _)
TrendOver(rows, acc) ==
    IF rows = <<>> THEN acc
    ELSE TrendOver(Tail(rows), TrendOutcome(db, filters, acc, Head(rows)))

\* the condition stage of the running field run over `rows` alone
RECURSIVE CondOver(_, _)
CondOver(rows, acc) ==
    IF rows = <<>> THEN acc
    ELSE CondOver(Tail(rows),
                  CondOutcome(db, filters, mode, acc, Head(rows),
                              filters.conditions[fidx][1], filters.conditions[fidx][2]))

\* the condition stage looks the history of this row up
LooksUp(row) ==
    LET field == filters.conditions[fidx][1]
    IN  field \notin DOMAIN row \/ IsNaN(row[field])

\* C8: when a loop of the trend or the condition stage ends, no candidate
\* whose lookup gave fewer than 10 bars or raised is among the rows kept, the
\* rows kept are those the stage keeps when run over the other candidates
\* alone, and execute has not raised because of it: it returns None when
\* nothing survives
C8_BadCandidatesDropped ==
    /\ (pc = "trend" /\ filters.supertrend # <<>> /\ results # <<>> /\ idx > Len(results)) =>
          /\ \A j \in 1..Len(results) :
                BadLookup(results[j].ticker, TrendDays) => ~Kept(results[j].ticker)
          /\ filtered = TrendOver(SelectSeq(results,
                                      LAMBDA r : ~BadLookup(r.ticker, TrendDays)), <<>>)
    /\ (pc = "conds" /\ idx > Len(results)) =>
          /\ \A j \in 1..Len(results) :
                (LooksUp(results[j]) /\ BadLookup(results[j].ticker, DaysConditions))
                    => ~Kept(results[j].ticker)
          /\ filtered = CondOver(SelectSeq(results,
                                     LAMBDA r : ~(LooksUp(r) /\
                                                  BadLookup(r.ticker, DaysConditions))), <<>>)
    /\ filters.swing = <<>> => ret \in {"running", "None", "frame", "printed"}
    /\ (pc = "done" /\ mode = "api" /\ filters.swing = <<>> /\ results = <<>>) => ret = "None"

\* execute over a store of one ticker with too little history and one good
\* ticker, under a trend filter: the first is dropped, the second returned
C8_Witness ==
    /\ pc = "done"
    /\ mode = "api"
    /\ ret = "frame"
    /\ filters.supertrend # <<>>
    /\ Len(volume_out) = 2
    /\ Len(results) = 1
    /\ BadLookup(volume_out[1], TrendDays)
    /\ TickersOf(results) = <<volume_out[2]>>

\* the columns a field's value is read from
ColumnsOf(field) ==
    IF field = "close" THEN {"close", "Close"}
    ELSE IF field = "ema" THEN {"ema", "EMA_50", "ema_50"}
    ELSE IF field = "pullback" THEN {"pullback", "Pullback_Pct"}
    ELSE {"volume", "Avg Vol", "avg_vol"}

\* value `v` stands in relation `op` to the integer threshold t
Holds(v, op, t) ==
    IF op = "gt" THEN v.n > t * v.d
    ELSE IF op = "gte" THEN v.n >= t * v.d
    ELSE IF op = "lt" THEN v.n < t * v.d
    ELSE IF op = "lte" THEN v.n <= t * v.d
    ELSE IF op = "eq" THEN Abs(v.n - t * v.d) * 10000 < v.d
    ELSE Abs(v.n - t * v.d) * 10000 >= v.d

SatisfiesAll(v, ops_list) ==
    /\ v.d > 0
    /\ \A k \in 1..Len(ops_list) : Holds(v, ops_list[k][1], ops_list[k][2])

\* C9: every row the condition stage has kept for a field holds a value for
\* that field that is neither missing nor NaN and satisfies every
\* (operator, threshold) pair of the field
C9_SurvivorsSatisfyAll ==
    pc = "conds" =>
        \A i \in 1..Len(filtered) :
            \E col \in ColumnsOf(filters.conditions[fidx][1]) :
                /\ col \in DOMAIN filtered[i]
                /\ SatisfiesAll(filtered[i][col], filters.conditions[fidx][2])

\* a field with two pairs: one candidate meets both and is kept, the other
\* meets only one of them and is dropped
C9_Witness ==
    /\ pc = "conds"
    /\ Len(filters.conditions[fidx][2]) = 2
    /\ Len(results) = 2
    /\ idx > Len(results)
    /\ Len(filtered) = 1
    /\ \E j \in 1..2 :
          /\ ~Kept(results[j].ticker)
          /\ \E k \in 1..2 : Holds(results[j].close, filters.conditions[fidx][2][k][1],
                                   filters.conditions[fidx][2][k][2])

\* the value of a field for a candidate row: latest close, latest EMA, latest
\* pullback percentage, average volume of the volume stage
ValueOf(row, field) ==
    LET cfg  == StConfig(filters)
        hist == Recomputed[db[row.ticker], DaysConditions,
                           <<cfg.period, cfg.multiplier, cfg.timeframe>>]
        last == hist[Len(hist)]
    IN  IF field = "close" THEN last.Close
        ELSE IF field = "ema" THEN last.EMA_50
        ELSE IF field = "pullback" THEN last.Pullback_Pct
        ELSE row.avg_volume

\* C10: in the condition stage a processed candidate with at least 10 bars of
\* history whose value for the field satisfies every pair is kept
C10_SatisfyingCandidateKept ==
    pc = "conds" =>
        \A j \in 1..Len(results) :
            (/\ j < idx
             /\ EnoughHistory(results[j].ticker, DaysConditions)
             /\ SatisfiesAll(ValueOf(results[j], filters.conditions[fidx][1]),
                             filters.conditions[fidx][2]))
                => Kept(results[j].ticker)

----------------------------------------------------------------------------------------------------------------------------------------
(* evaluate_condition applied to a value and a threshold, under every      *)
(* operator.                                                               *)

\* the operators tried: the six known ones and two unknown ones
CondOperators == {"gt", "gte", "lt", "lte", "eq", "ne", "ge", ""}

\* a threshold, and a value beyond, at or within the tolerance 1/10000 of it
\* on either side, or a missing value (NaN, None)
CondInit ==
    /\ cthreshold \in {-3, -1, 0, 2, 5}
    /\ cvalue \in {RAdd(R(cthreshold), Frac(o[1], o[2])) :
                      o \in {<<-2, 1>>, <<-1, 1>>, <<-1, 5000>>, <<-1, 10000>>,
                             <<-1, 20000>>, <<0, 1>>, <<1, 20000>>, <<1, 10000>>,
                             <<1, 5000>>, <<1, 1>>, <<2, 1>>}}
                      \cup {NaN, None}
    /\ cresult = <<>>
    /\ cpc = "input"
    /\ CoreIdle
    /\ BuildIdle
    /\ CacheIdle

\* the caller evaluates the value against the threshold under each operator
EvaluateCondition ==
    /\ cpc = "input"
    /\ cresult' = [op \in CondOperators |-> evaluate_condition(cvalue, op, cthreshold)]
    /\ cpc' = "done"
    /\ UNCHANGED <<cvalue, cthreshold>>
    /\ UNCHANGED <<indVars, streakVars, weeklyVars, screenVars, max_results, calls, queries, lookups,
                   cacheVars, batchVars, reuseVars, discVars>>

SpecCondition == CondInit /\ [][EvaluateCondition]_vars

\* C11: for a value that is not missing (a number, d > 0), eq is true whenever
\* |v - t| < 0.0001, exactly one of eq and ne is true, and gt, gte, lt, lte are
\* v > t, v >= t, v < t, v <= t; for a missing value every operator gives
\* false, and an unknown operator gives false for every value
C11_ConditionSemantics ==
    cpc = "done" =>
        /\ cvalue.d > 0 =>
              /\ Abs(cvalue.n - cthreshold * cvalue.d) * 10000 < cvalue.d => cresult["eq"]
              /\ cresult["eq"] # cresult["ne"]
              /\ cresult["gt"]  <=> cvalue.n > cthreshold * cvalue.d
              /\ cresult["gte"] <=> cvalue.n >= cthreshold * cvalue.d
              /\ cresult["lt"]  <=> cvalue.n < cthreshold * cvalue.d
              /\ cresult["lte"] <=> cvalue.n <= cthreshold * cvalue.d
        /\ cvalue.d <= 0 => \A op \in CondOperators : ~cresult[op]
        /\ ~cresult["ge"] /\ ~cresult[""]

\* a value within the tolerance of the threshold without being equal to it:
\* eq holds, ne does not
C11_Witness ==
    /\ cpc = "done"
    /\ cvalue.d > 0
    /\ cvalue.n # cthreshold * cvalue.d
    /\ Abs(cvalue.n - cthreshold * cvalue.d) * 10000 < cvalue.d
    /\ cresult["eq"]
    /\ ~cresult["ne"]

----------------------------------------------------------------------------
(* The builder: filter-setting calls on a Screener before execute().       *)

\* filter-setting calls made on one builder
MaxCalls == 2

BuildInit ==
    /\ db = <<>>
    /\ mode = "api"
    /\ filters = NoFilters
    /\ \E sp \in ScreenParams : min_volume = sp[1] /\ days = sp[2]
    /\ pc = "build"
    /\ results = <<>>
    /\ filtered = <<>>
    /\ idx = 1
    /\ fidx = 1
    /\ volume_out = <<>>
    /\ ret = "running"
    /\ BuildIdle
    /\ CacheIdle
    /\ IndIdle /\ StreakIdle /\ WeeklyIdle /\ CondIdle

\* what a builder call leaves alone whatever its arguments
BuildFrame ==
    /\ UNCHANGED <<db, mode, min_volume, days, pc, results, filtered, idx, fidx, volume_out>>
    /\ UNCHANGED <<queries, lookups>>
    /\ UNCHANGED <<indVars, streakVars, weeklyVars, cvalue, cthreshold, cresult, cpc, max_results,
                   cacheVars, batchVars, reuseVars, discVars>>

\* filter_supertrend(color, timeframe, period, multiplier): raises ValueError
\* before it touches self._filters, else stores the configuration
FilterSupertrend ==
    /\ pc = "build" /\ Len(calls) < MaxCalls
    /\ \E color \in {"green", "red", "blue"}, timeframe \in {"1D", "1W", "1M"},
          pm \in {<<10, 3>>, <<3, 1>>} :
          /\ calls' = Append(calls, [method |-> "filter_supertrend", color |-> color,
                                     timeframe |-> timeframe])
          /\ IF ValidSupertrend(color, timeframe)
             THEN /\ filters' = filter_supertrend(filters, color, timeframe, pm[1], pm[2])
                  /\ ret' = "self"
             ELSE /\ filters' = filters
                  /\ ret' = "raised"
    /\ BuildFrame

\* filter_close / filter_ema / filter_pullback / filter_volume with the pairs
\* its keyword arguments give (none when every keyword is None)
FilterField ==
    /\ pc = "build" /\ Len(calls) < MaxCalls
    /\ \E field \in {"close", "ema", "pullback", "volume"},
          conditions \in {<<>>, <<<<"gte", 4>>>>, <<<<"gt", 1>>, <<"lte", 5>>>>} :
          /\ calls' = Append(calls, [method |-> "filter_" \o field, field |-> field,
                                     conditions |-> conditions])
          /\ filters' = add_condition(filters, field, conditions)
          /\ ret' = "self"
    /\ BuildFrame

FilterRedStreak ==
    /\ pc = "build" /\ Len(calls) < MaxCalls
    /\ \E min_days \in {3, 10} :
          /\ calls' = Append(calls, [method |-> "filter_red_streak"])
          /\ filters' = filter_red_streak(filters, min_days)
          /\ ret' = "self"
    /\ BuildFrame

FilterSwing ==
    /\ pc = "build" /\ Len(calls) < MaxCalls
    /\ calls' = Append(calls, [method |-> "filter_swing"])
    /\ filters' = filter_swing(filters, 2, 5)
    /\ ret' = "self"
    /\ BuildFrame

BuildNext == FilterSupertrend \/ FilterField \/ FilterRedStreak \/ FilterSwing

SpecBuilder == BuildInit /\ [][BuildNext]_vars

\* the call just made is filter_supertrend with a colour outside {green, red}
\* or a timeframe outside {1D, 1W}
BadSupertrendCall(c) ==
    /\ c.method = "filter_supertrend"
    /\ c.color \notin {"green", "red"} \/ c.timeframe \notin {"1D", "1W"}

\* C12: a filter_supertrend call with a colour outside {green, red} or a
\* timeframe outside {1D, 1W} raises at the call, and leaves the accumulated
\* filter specification (supertrend, swing, conditions, red_streak) as it was
C12_InvalidSupertrendRaises ==
    [][(pc = "build" /\ Len(calls') = Len(calls) + 1
            /\ BadSupertrendCall(calls'[Len(calls')]))
          => (ret' = "raised" /\ filters' = filters)]_vars

\* an invalid filter_supertrend call made after a valid one: it raised and
\* the configuration of the valid call is still in place
C12_Witness ==
    /\ pc = "build"
    /\ Len(calls) = 2
    /\ BadSupertrendCall(calls[2])
    /\ ret = "raised"
    /\ filters.supertrend # <<>>
    /\ filters.supertrend[1].color = calls[1].color

\* C13: every filter-setting call with valid arguments returns the builder
\* itself, and no builder call issues a volume query or a history lookup or
\* changes anything but the accumulated filter specification: the store, the
\* volume settings and the (empty) candidate rows stay as they were
C13_BuilderOnlyAccumulates ==
    [][(pc = "build" /\ Len(calls') = Len(calls) + 1) =>
          /\ ~BadSupertrendCall(calls'[Len(calls')]) => ret' = "self"
          /\ queries' = <<>> /\ lookups' = <<>>
          /\ UNCHANGED <<db, mode, min_volume, days, pc, results, filtered, volume_out>>]_vars

\* a chain of two valid calls, filter_supertrend(..., '1W', ...) and a field
\* filter: both returned the builder, the specification holds both settings
\* and nothing was queried
C13_Witness ==
    /\ pc = "build"
    /\ Len(calls) = 2
    /\ calls[1].method = "filter_supertrend"
    /\ calls[2].method = "filter_ema"
    /\ ret = "self"
    /\ filters.supertrend # <<>>
    /\ filters.supertrend[1].timeframe = "1W"
    /\ Len(filters.conditions) = 1
    /\ queries = <<>>
    /\ lookups = <<>>
    /\ results = <<>>

\* C14: one run issues exactly one volume query, with the run's days and
\* min_volume, whose frame is what the later stages start from; the stages
\* run at most once each in the order volume, swing, trend, conditions; every
\* history lookup of the trend stage precedes every lookup of the condition
\* stage; and each stage starts from exactly the rows the stage before it kept
C14_OneQueryStagesInOrder ==
    /\ [](/\ pc = "volume" => queries = <<>>
          /\ pc \notin {"volume", "idle"} =>
                queries = <<[min_days |-> days, min_avg_volume |-> min_volume]>>
          /\ pc = "swing" => results \in query_by_volume(db, days, min_volume)
          /\ \A i, j \in 1..Len(lookups) :
                (i < j /\ lookups[i][1] = "conds") => lookups[j][1] = "conds")
    /\ [][LET Rank(p) == CASE p = "volume" -> 1 [] p = "swing" -> 2 [] p = "trend" -> 3
                              [] p = "conds" -> 4 [] OTHER -> 5
          IN  /\ Rank(pc') >= Rank(pc)
              /\ (pc = "swing" /\ pc' = "trend") => results' = results
              /\ (pc = "trend" /\ pc' = "trend") => results' = results
              /\ (pc = "trend" /\ pc' # "trend") =>
                    results' = IF filters.supertrend # <<>> /\ results # <<>>
                               THEN filtered ELSE results
              /\ (pc = "conds" /\ idx <= Len(results)) => results' = results
              /\ (pc = "conds" /\ idx > Len(results)) => results' = filtered]_vars

\* a finished run of execute with a trend and a condition filter on a field
\* the volume rows lack: one query, two lookups by the trend stage, then one
\* lookup by the condition stage for the single survivor of the trend stage
C14_Witness ==
    /\ pc = "done"
    /\ mode = "api"
    /\ Len(queries) = 1
    /\ Len(volume_out) = 2
    /\ Len(lookups) = 3
    /\ lookups[1][1] = "trend" /\ lookups[2][1] = "trend" /\ lookups[3][1] = "conds"
    /\ lookups[3][2] \in {lookups[1][2], lookups[2][2]}

\* C15: with a swing filter configured and at least one candidate from the
\* volume stage, the run does not raise in the swing stage, and the trend
\* stage starts from exactly the candidates whose latest recomputed bar has
\* pullback_pct >= min_pullback, ema_distance_pct = (close - ema) / ema * 100
\* <= max_ema_distance and close > Supertrend
C15_SwingStageKeeps ==
    (filters.swing # <<>> /\ volume_out # <<>>) =>
        /\ ret \notin {"raised", "exit"}
        /\ (pc = "trend" /\ idx = 1) =>
              TickersOf(results) =
                  SelectSeq(volume_out,
                      LAMBDA t :
                          LET hist == Recomputed[db[t], DaysDaily, <<10, 3, "1D">>]
                              last == hist[Len(hist)]
                              dist == RMul(RDiv(RSub(last.Close, last.EMA_50), last.EMA_50),
                                           R(100))
                          IN  /\ hist # <<>>
                              /\ RGe(last.Pullback_Pct, R(filters.swing[1].min_pullback))
                              /\ RLe(dist, R(filters.swing[1].max_ema_distance))
                              /\ RGt(last.Close, last.Supertrend))

----------------------------------------------------------------------------
(* ETFScreener.screen_by_volume called on its own ("lib", with any          *)
(* max_results) and as Screener.execute calls it ("api", max_results=None). *)

VolumeInit ==
    /\ db \in Stores
    /\ mode \in {"api", "lib"}
    /\ max_results \in IF mode = "api" THEN {<<>>} ELSE {<<>>, <<0>>, <<1>>, <<2>>}
    /\ \E sp \in ScreenParams : min_volume = sp[1] /\ days = sp[2]
    /\ pc = "query"
    /\ filters = NoFilters
    /\ results = <<>>
    /\ filtered = <<>>
    /\ idx = 1
    /\ fidx = 1
    /\ volume_out = <<>>
    /\ ret = "running"
    /\ calls = <<>> /\ queries = <<>> /\ lookups = <<>>
    /\ CacheIdle
    /\ IndIdle /\ StreakIdle /\ WeeklyIdle /\ CondIdle

\* the call of screen_by_volume
ScreenByVolume ==
    /\ pc = "query"
    /\ \E frame \in screen_by_volume(db, days, min_volume, max_results) :
          /\ results' = frame
          /\ volume_out' = TickersOf(frame)
    /\ queries' = Append(queries, [min_days |-> days, min_avg_volume |-> min_volume])
    /\ pc' = "done"
    /\ ret' = "frame"
    /\ UNCHANGED <<db, mode, filters, min_volume, days, filtered, idx, fidx>>
    /\ UNCHANGED <<indVars, streakVars, weeklyVars>>
    /\ UNCHANGED <<cvalue, cthreshold, cresult, cpc, max_results, calls, lookups, cacheVars, batchVars, reuseVars, discVars>>

SpecVolume == VolumeInit /\ [][ScreenByVolume]_vars

\* the stored bars of a ticker in the trailing window of the run
WindowBars(t) == InWindow(etf_data[db[t]], days)

\* the tickers with a bar in the window whose average volume over the window
\* is at least min_volume
Qualifying ==
    {t \in DOMAIN db : /\ WindowBars(t) # <<>>
                       /\ AggSum(WindowBars(t), "volume") >= min_volume * Len(WindowBars(t))}

\* ticker a's average volume over the window is at least ticker b's
AtLeastAsTraded(a, b) ==
    AggSum(WindowBars(a), "volume") * Len(WindowBars(b))
        >= AggSum(WindowBars(b), "volume") * Len(WindowBars(a))

\* C16: screen_by_volume returns qualifying tickers only, each once, by
\* descending average volume; all of them unless the caller passed a
\* max_results (never in execute), and then the max_results most traded ones
C16_VolumeScreenExact ==
    pc = "done" =>
        /\ \A i \in 1..Len(volume_out) : volume_out[i] \in Qualifying
        /\ \A i, j \in 1..Len(volume_out) :
              i < j => (volume_out[i] # volume_out[j]
                            /\ AtLeastAsTraded(volume_out[i], volume_out[j]))
        /\ \A t \in Qualifying :
              (\A i \in 1..Len(volume_out) : volume_out[i] # t) =>
                  /\ max_results # <<>>
                  /\ mode # "api"
                  /\ Len(volume_out) = max_results[1]
                  /\ \A i \in 1..Len(volume_out) : AtLeastAsTraded(volume_out[i], t)
        /\ mode = "api" => max_results = <<>>

\* two qualifying tickers of different average volume: without max_results
\* both are returned, the more traded one first although it is the second
\* ticker of the store
C16_Witness ==
    /\ pc = "done"
    /\ max_results = <<>>
    /\ Cardinality(Qualifying) = 2
    /\ volume_out = <<2, 1>>

----------------------------------------------------------------------------
(* Further properties of the indicator engine (SpecIndicators).            *)

\* C17: the EMA column has a value at every bar of the input, ema[0] =
\* close[0] and ema[i] = a*close[i] + (1-a)*ema[i-1] with a = 2/(period+1)
\* (period = 50 in add_indicators); on a constant series every EMA value is
\* that constant
C17_EmaRecursion ==
    ipc = "done" =>
        /\ Len(ind) = Len(series)
        /\ \A i \in 1..Len(ind) :
              /\ ~IsNaN(ind[i].EMA_50)
              /\ i = 1 => ind[i].EMA_50 = ind[i].Close
              /\ i > 1 => ind[i].EMA_50 =
                              RAdd(RMul(Frac(2, EmaSpan + 1), ind[i].Close),
                                   RMul(Frac(EmaSpan - 1, EmaSpan + 1), ind[i - 1].EMA_50))
        /\ (\A i \in 1..Len(ind) : ind[i].Close = ind[1].Close) =>
              \A i \in 1..Len(ind) : ind[i].EMA_50 = ind[1].Close

\* a series of three bars closing at 1, 3, 4: the EMA starts at 1 and is
\* 1 + 2*2/51 = 55/51 at the second bar
C17_Witness ==
    /\ ipc = "done"
    /\ Len(ind) = 3
    /\ ind[1].Close = R(1) /\ ind[2].Close = R(3) /\ ind[3].Close = R(4)
    /\ ind[1].EMA_50 = R(1)
    /\ ind[2].EMA_50 = Frac(55, 51)

\* C20: bar 0's final bands are the basic bands and, at every later bar whose
\* basic band and previous final band are defined, final_upper[i] is
\* basic_upper[i] if close[i-1] > final_upper[i-1] and min(basic_upper[i],
\* final_upper[i-1]) otherwise, final_lower[i] is basic_lower[i] if
\* close[i-1] < final_lower[i-1] and max(basic_lower[i], final_lower[i-1])
\* otherwise
C20_FinalBandRatchet ==
    ipc = "done" =>
        LET st == calculate_supertrend(Column(ind, "High"), Column(ind, "Low"),
                                       Column(ind, "Close"), st_period, R(st_multiplier))
        IN  \A i \in 1..Len(ind) :
                /\ i = 1 => (ind[i].ST_Upper = st.basic_ub[i] /\ ind[i].ST_Lower = st.basic_lb[i])
                /\ (i > 1 /\ ~IsNaN(st.basic_ub[i]) /\ ~IsNaN(ind[i - 1].ST_Upper)) =>
                      ind[i].ST_Upper =
                          IF RGt(ind[i - 1].Close, ind[i - 1].ST_Upper)
                          THEN st.basic_ub[i]
                          ELSE RMin(st.basic_ub[i], ind[i - 1].ST_Upper)
                /\ (i > 1 /\ ~IsNaN(st.basic_lb[i]) /\ ~IsNaN(ind[i - 1].ST_Lower)) =>
                      ind[i].ST_Lower =
                          IF RLt(ind[i - 1].Close, ind[i - 1].ST_Lower)
                          THEN st.basic_lb[i]
                          ELSE RMax(st.basic_lb[i], ind[i - 1].ST_Lower)

-----------------------------------------------------------------------------
(* The cache table etf_data: insert_etf_data and insert_dataframe.  A row   *)
(* of `table` holds the twelve columns an insert writes and its id; the     *)
(* column created_at (the wall clock) is left out.                          *)

MaxRows == 2

MaxInserts == 3

\* ticker.upper(), over the symbols the callers pass
Upper(ticker) == IF ticker = "spy" THEN "SPY" ELSE ticker

\* a frame's Date cell: a pandas Timestamp (it has strftime, and str() of it
\* carries the time of day) or a plain string
Timestamp(day) == [has_strftime |-> TRUE, ymd |-> day, str |-> day \o " 00:00:00"]

DateString(day) == [has_strftime |-> FALSE, ymd |-> "", str |-> day]

\* row["Date"].strftime("%Y-%m-%d") if hasattr(row["Date"], "strftime")
\* else str(row["Date"])
date_str(d) == IF d.has_strftime THEN d.ymd ELSE d.str

\* the parameters insert_dataframe binds for one row of the frame
RowParams(ticker, row) ==
    [ticker     |-> Upper(ticker),
     date       |-> date_str(row.Date),
     open       |-> Get(row, "Open"),
     high       |-> Get(row, "High"),
     low        |-> Get(row, "Low"),
     close      |-> Get(row, "Close"),
     volume     |-> IF "Volume" \in DOMAIN row THEN row.Volume ELSE 0,
     ema_50     |-> Get(row, "EMA_50"),
     supertrend |-> Get(row, "Supertrend"),
     st_upper   |-> Get(row, "ST_Upper"),
     st_lower   |-> Get(row, "ST_Lower"),
     signal     |-> IF "Signal" \in DOMAIN row THEN row.Signal ELSE 0]

\* INSERT without a conflict clause on a table without UNIQUE(ticker, date)
InsertPlain(tbl, params) ==
    [rows |-> tbl.rows \cup {params @@ [id |-> tbl.seq + 1]}, seq |-> tbl.seq + 1]

\* INSERT OR REPLACE INTO etf_data under UNIQUE(ticker, date): the row in
\* conflict is deleted and the new one takes the next id
InsertOrReplace(tbl, params) ==
    [rows |-> {r \in tbl.rows : ~(r.ticker = params.ticker /\ r.date = params.date)}
                  \cup {params @@ [id |-> tbl.seq + 1]},
     seq  |-> tbl.seq + 1]

insert_etf_data(tbl, ticker, date, open_price, high, low, close, volume, ema_50, supertrend, st_upper, st_lower, signal) ==
    InsertOrReplace(tbl,
        [ticker |-> Upper(ticker), date |-> date, open |-> open_price, high |-> high,
         low |-> low, close |-> close, volume |-> volume, ema_50 |-> ema_50,
         supertrend |-> supertrend, st_upper |-> st_upper, st_lower |-> st_lower,
         signal |-> signal])

\* insert_dataframe(df, ticker) on the table: one INSERT OR REPLACE per row,
\* in the frame's order
RECURSIVE InsertRows(_, _, _, _)
InsertRows(tbl, df, ticker, n) ==
    IF n = 0 THEN tbl
    ELSE InsertOrReplace(InsertRows(tbl, df, ticker, n - 1), RowParams(ticker, df[n]))

\* the rows a caller's frame is made of: a fetched bar (price 1) or a bar with
\* its indicator columns (price 2), dated by a Timestamp or by a string
FrameRows ==
    {IF p = 1
     THEN [Date |-> d, Open |-> R(p), High |-> R(p), Low |-> R(p), Close |-> R(p),
           Volume |-> p]
     ELSE [Date |-> d, Open |-> R(p), High |-> R(p), Low |-> R(p), Close |-> R(p),
           Volume |-> p, EMA_50 |-> R(p), Supertrend |-> R(p), ST_Upper |-> R(p + 1),
           ST_Lower |-> R(p - 1), Signal |-> 1] :
        d \in {Timestamp("2024-01-01"), Timestamp("2024-01-02"), DateString("2024-01-01")},
        p \in {1, 2}}

CacheInit ==
    /\ table = {}
    /\ seq = 0
    /\ cache_df \in SeqsUpTo(FrameRows, MaxRows)
    /\ last_calls = <<>>
    /\ ninserts = 0
    /\ to_fetch = <<>> /\ fetched = <<>> /\ failures = {}
    /\ ReuseIdle /\ DiscIdle
    /\ CoreIdle
    /\ CondIdle
    /\ BuildIdle

\* the call just made joins the last two calls
Called(call) ==
    /\ last_calls' = IF last_calls = <<>> THEN <<call>> ELSE <<last_calls[Len(last_calls)], call>>
    /\ ninserts' = ninserts + 1
    /\ UNCHANGED <<cache_df, batchVars, reuseVars, discVars, indVars, streakVars, weeklyVars, screenVars>>
    /\ UNCHANGED <<cvalue, cthreshold, cresult, cpc, max_results, calls, queries, lookups>>

\* a caller stores one bar without indicators (ema_50 .. signal defaulted)
InsertEtfData ==
    /\ ninserts < MaxInserts
    /\ \E ticker \in {"spy", "QQQ"}, p \in {1, 2} :
          LET out == insert_etf_data([rows |-> table, seq |-> seq], ticker, "2024-01-01",
                                     R(p), R(p), R(p), R(p), p, None, None, None, None, 0)
          IN  /\ table' = out.rows
              /\ seq' = out.seq
              /\ Called([op |-> "insert_etf_data", ticker |-> ticker,
                         rows |-> <<[Date |-> DateString("2024-01-01"), Open |-> R(p),
                                     High |-> R(p), Low |-> R(p), Close |-> R(p),
                                     Volume |-> p]>>])

\* a caller stores the frame under a ticker
InsertDataframe ==
    /\ ninserts < MaxInserts
    /\ \E ticker \in {"spy", "SPY"} :
          LET out == InsertRows([rows |-> table, seq |-> seq], cache_df, ticker, Len(cache_df))
          IN  /\ table' = out.rows
              /\ seq' = out.seq
              /\ Called([op |-> "insert_dataframe", ticker |-> ticker, rows |-> cache_df])

SpecCache == CacheInit /\ [][InsertEtfData \/ InsertDataframe]_vars

\* the records of the table: its rows without their ids
Records(rows) == {[k \in DOMAIN r \ {"id"} |-> r[k]] : r \in rows}

SameKey(a, b) == a.ticker = b.ticker /\ a.date = b.date

\* C18: the table holds at most one record per (upper-cased ticker, date);
\* after every insert call each pair the call wrote holds the values the call
\* wrote last for it and every other record is as it was; inserting the same
\* frame a second time leaves the set of records unchanged
C18_OneRecordPerTickerDate ==
    /\ [](\A a, b \in table : (a.ticker = Upper(a.ticker) /\ (SameKey(a, b) => a = b)))
    /\ [][ninserts' = ninserts + 1 =>
            LET call    == last_calls'[Len(last_calls')]
                written == [i \in 1..Len(call.rows) |-> RowParams(call.ticker, call.rows[i])]
                last    == {i \in 1..Len(written) :
                               \A j \in (i + 1)..Len(written) : ~SameKey(written[i], written[j])}
                touched(r) == \E i \in 1..Len(written) : SameKey(written[i], r)
            IN  /\ \A i \in last : written[i] \in Records(table')
                /\ \A r \in Records(table') : ~touched(r) => r \in Records(table)
                /\ \A r \in Records(table) : ~touched(r) => r \in Records(table')
                /\ (last_calls # <<>> /\ last_calls[Len(last_calls)] = call /\ call.op = "insert_dataframe")
                      => Records(table') = Records(table)]_vars

\* C18 witness: a two-row frame dating the same day by a Timestamp and by a
\* string was stored as "spy" twice in a row, after a bar of that day was
\* stored by insert_etf_data: one SPY record, carrying the frame's last row
C18_Witness ==
    /\ ninserts = 3
    /\ Len(last_calls) = 2 /\ last_calls[1] = last_calls[2]
    /\ last_calls[2].op = "insert_dataframe" /\ last_calls[2].ticker = "spy"
    /\ Len(cache_df) = 2
    /\ cache_df[1].Date = Timestamp("2024-01-01") /\ cache_df[1].Close = R(1)
    /\ cache_df[2].Date = DateString("2024-01-01") /\ cache_df[2].Close = R(2)
    /\ seq = 5
    /\ Records(table) = {RowParams("SPY", cache_df[2])}

-----------------------------------------------------------------------------
(* Caching the symbols missing from the store: screen_etfs fetches them     *)
(* (fetch_multiple_etfs), adds the indicators and stores each frame         *)
(* (insert_dataframe); fetch_and_analyze runs the same three loops.  The    *)
(* fetcher and the database are collaborators: a call of theirs returns or  *)
(* raises.                                                                  *)

BatchInit ==
    /\ db = <<>>
    /\ mode = "cli"
    /\ to_fetch \in {q \in SeqsUpTo(Tickers, NumTickers) :
                        q # <<>> /\ \A i, j \in 1..Len(q) : q[i] = q[j] => i = j}
    /\ fetched = <<>>
    /\ failures = {}
    /\ pc = "fetch"
    /\ idx = 1
    /\ ret = "running"
    /\ filters = NoFilters /\ min_volume = 0 /\ days = 0
    /\ results = <<>> /\ filtered = <<>> /\ fidx = 1 /\ volume_out = <<>>
    /\ table = {} /\ seq = 0 /\ cache_df = <<>> /\ last_calls = <<>> /\ ninserts = 0
    /\ ReuseIdle /\ DiscIdle
    /\ IndIdle /\ StreakIdle /\ WeeklyIdle /\ CondIdle /\ BuildIdle

\* what the three loops leave alone
BatchFrame ==
    /\ UNCHANGED <<to_fetch, mode, filters, min_volume, days, results, filtered, fidx,
                   volume_out>>
    /\ UNCHANGED <<indVars, streakVars, weeklyVars, cacheVars, reuseVars, discVars>>
    /\ UNCHANGED <<cvalue, cthreshold, cresult, cpc, max_results, calls, queries, lookups>>

\* fetch_multiple_etfs, one turn of its loop: fetch_historical_data returns
\* the symbol's history or raises, and the loop catches what it raises
FetchSymbol ==
    /\ pc = "fetch"
    /\ \/ \E h \in HistoryIds : fetched' = Append(fetched, <<to_fetch[idx], h>>)
                                /\ UNCHANGED failures
       \/ /\ failures' = failures \cup {<<"fetch", to_fetch[idx]>>}
          /\ UNCHANGED fetched
    /\ IF idx < Len(to_fetch)
       THEN idx' = idx + 1 /\ UNCHANGED <<pc, ret>>
       ELSE /\ idx' = 1
            /\ pc' = IF fetched' = <<>> THEN "done" ELSE "indicators"
            /\ ret' = IF fetched' = <<>> THEN "returned" ELSE ret
    /\ UNCHANGED db
    /\ BatchFrame

\* the loop etf_data[symbol] = add_indicators(df); the frames with their
\* indicator columns are the rows of insert_dataframe(Histories[h])
AddIndicatorsToAll ==
    /\ pc = "indicators"
    /\ pc' = "store"
    /\ UNCHANGED <<db, idx, ret, fetched, failures>>
    /\ BatchFrame

\* the store loop, one turn: insert_dataframe stores the symbol's frame, or it
\* raises; nothing catches that before the handler around the whole function,
\* which prints the error and exits with status 1
StoreSymbol ==
    /\ pc = "store"
    /\ \/ /\ db' = [t \in DOMAIN db \cup {fetched[idx][1]} |->
                        IF t = fetched[idx][1] THEN fetched[idx][2] ELSE db[t]]
          /\ UNCHANGED failures
          /\ IF idx < Len(fetched)
             THEN idx' = idx + 1 /\ UNCHANGED <<pc, ret>>
             ELSE idx' = idx /\ pc' = "done" /\ ret' = "returned"
       \/ /\ failures' = failures \cup {<<"store", fetched[idx][1]>>}
          /\ pc' = "done"
          /\ ret' = "exit"
          /\ UNCHANGED <<db, idx>>
    /\ UNCHANGED fetched
    /\ BatchFrame

SpecBatch == BatchInit /\ [][FetchSymbol \/ AddIndicatorsToAll \/ StoreSymbol]_vars

\* C19: when the run is over it was not aborted, and every symbol whose own
\* fetch and store did not fail is stored
C19_FailureIsolated ==
    pc = "done" =>
        /\ ret # "exit"
        /\ \A i \in 1..Len(to_fetch) :
              (\A f \in failures : f[2] # to_fetch[i]) => to_fetch[i] \in DOMAIN db

\* the direction series of the frame `ind`, as calculate_supertrend keeps it
DirectionOf(df, period, multiplier) ==
    calculate_supertrend(Column(df, "High"), Column(df, "Low"), Column(df, "Close"),
                         period, multiplier).direction

\* a band as the Supertrend value: the bar's close where the band is undefined
BandOrClose(band, close) == IF IsNaN(band) THEN close ELSE band

\* C21: the direction is a two-state machine: bar 0 is down (-1) with the
\* upper band as value; from up a bar flips to down, with the upper band as
\* value, iff close <= lower band, and otherwise stays up with the lower band
\* as value; from down it flips to up, with the lower band as value, iff
\* close >= upper band, and otherwise stays down with the upper band as value
\* (a value whose band is undefined is the bar's close)
C21_DirectionMachine ==
    ipc = "done" =>
        LET dir == DirectionOf(ind, st_period, R(st_multiplier))
        IN  \A i \in 1..Len(ind) :
                LET down == BandOrClose(ind[i].ST_Upper, ind[i].Close)
                    up   == BandOrClose(ind[i].ST_Lower, ind[i].Close)
                IN  /\ dir[i] \in {1, -1}
                    /\ ind[i].Supertrend = IF dir[i] = 1 THEN up ELSE down
                    /\ i = 1 => dir[i] = -1
                    /\ (i > 1 /\ dir[i - 1] = 1) =>
                          (dir[i] = -1 <=> RLe(ind[i].Close, ind[i].ST_Lower))
                    /\ (i > 1 /\ dir[i - 1] = -1) =>
                          (dir[i] = 1 <=> RGe(ind[i].Close, ind[i].ST_Upper))

\* C21 witness: a series that goes down, up, stays up on a close above the
\* lower band and flips back down on a close equal to the lower band
C21_Witness ==
    /\ ipc = "done"
    /\ Len(ind) = 4
    /\ DirectionOf(ind, st_period, R(st_multiplier)) = <<-1, 1, 1, -1>>
    /\ RGt(ind[3].Close, ind[3].ST_Lower)
    /\ ind[4].Close = ind[4].ST_Lower

\* C22: for a series of any length calculate_supertrend returns a value for
\* every bar: the bands are undefined exactly at the bars before the
\* period-th, where the Supertrend is the bar's close and the direction is
\* down, and the Supertrend is defined at every bar
C22_WarmUpFallsBackToClose ==
    ipc = "done" =>
        /\ Len(ind) = Len(series)
        /\ LET dir == DirectionOf(ind, st_period, R(st_multiplier))
           IN  \A i \in 1..Len(ind) :
                   /\ IsNaN(ind[i].ST_Upper) <=> i < st_period
                   /\ IsNaN(ind[i].ST_Lower) <=> i < st_period
                   /\ i < st_period => (ind[i].Supertrend = ind[i].Close /\ dir[i] = -1)
                   /\ ~IsNaN(ind[i].Supertrend)

\* C22 witness: a series of two bars under period 3, shorter than the period
C22_Witness ==
    /\ ipc = "done"
    /\ st_period = 3
    /\ Len(ind) = 2
    /\ ind[1].Close # ind[2].Close
    /\ \A i \in 1..2 : IsNaN(ind[i].ST_Upper) /\ ind[i].Supertrend = ind[i].Close

\* C26 as stated: at every bar where the bands are defined the bar is GREEN
\* (close > supertrend) iff its direction is up, and RED iff it is down
C26_ColourIsDirection ==
    ipc = "done" =>
        LET dir == DirectionOf(ind, st_period, R(st_multiplier))
        IN  \A i \in 1..Len(ind) :
                BothBandsDefined(ind[i]) =>
                    (BarStatus(ind[i].Close, ind[i].Supertrend) = "GREEN" <=> dir[i] = 1)

\* C26 amended: at every bar after the first where the bands are defined and
\* the upper band is above the lower band, the bar is GREEN iff its direction
\* is up and RED iff it is down
C26_ColourIsDirectionBetweenBands ==
    ipc = "done" =>
        LET dir == DirectionOf(ind, st_period, R(st_multiplier))
        IN  \A i \in 2..Len(ind) :
                (BothBandsDefined(ind[i]) /\ RGt(ind[i].ST_Upper, ind[i].ST_Lower)) =>
                    /\ BarStatus(ind[i].Close, ind[i].Supertrend) = "GREEN" <=> dir[i] = 1
                    /\ BarStatus(ind[i].Close, ind[i].Supertrend) = "RED" <=> dir[i] = -1

\* C26 witness: with the upper band above the lower band, a bar after the
\* first is down and RED and a later one turns up, and GREEN, on a close equal
\* to the upper band
C26_Witness ==
    /\ ipc = "done"
    /\ LET dir == DirectionOf(ind, st_period, R(st_multiplier))
       IN  \E i, j \in 2..Len(ind) :
               /\ i < j
               /\ BothBandsDefined(ind[i]) /\ RGt(ind[i].ST_Upper, ind[i].ST_Lower)
               /\ BothBandsDefined(ind[j]) /\ RGt(ind[j].ST_Upper, ind[j].ST_Lower)
               /\ dir[i] = -1 /\ BarStatus(ind[i].Close, ind[i].Supertrend) = "RED"
               /\ dir[j] = 1 /\ BarStatus(ind[j].Close, ind[j].Supertrend) = "GREEN"
               /\ ind[j].Close = ind[j].ST_Upper

-----------------------------------------------------------------------------
(* Further properties of the pipeline.                                     *)

\* C23: once the candidate set of execute is empty after a stage or after a
\* field of the condition stage, no later step looks a history up (or
\* recomputes indicators on one), the set stays empty and execute returns None
C23_EmptySetShortCircuits ==
    /\ []((mode = "api" /\ pc = "done" /\ results = <<>>) => ret = "None")
    /\ [][(mode = "api" /\ pc # "volume" /\ results = <<>>) =>
              (lookups' = lookups /\ results' = <<>>)]_vars

\* C23 witness: execute with conditions on two fields; the first field
\* looked every candidate up and kept none, and the second field is about to
\* run on the empty set
C23_Witness ==
    /\ mode = "api" /\ pc = "conds" /\ fidx = 2
    /\ filters.supertrend = <<>>
    /\ Len(filters.conditions) = 2
    /\ Len(volume_out) = NumTickers
    /\ results = <<>>
    /\ lookups = [i \in 1..Len(volume_out) |-> <<"conds", volume_out[i]>>]

\* a store with the same bars and other cached indicator values: the rows
\* with the cached colour of every bar turned round, no EMA and no signal
StaleRows(rows) ==
    [i \in 1..Len(rows) |->
        [rows[i] EXCEPT !.ema_50     = NaN,
                        !.supertrend = IF RGt(rows[i].close, rows[i].supertrend)
                                       THEN RAdd(rows[i].close, R(1))
                                       ELSE RSub(rows[i].close, R(1)),
                        !.st_upper   = NaN,
                        !.st_lower   = NaN,
                        !.signal     = 0]]

\* add_indicators on the history looked up in the store of stale rows,
\* tabulated per cached history
RecomputedStale ==
    [h \in HistoryIds, n_days \in {DaysDaily, DaysWeekly}, ps \in ParamSets |->
        Recompute(FrameOf(0, InWindow(StaleRows(etf_data[h]), n_days)), ps)]

\* C24: the trend stage decides from the bars of the lookup and the filter's
\* period, multiplier and timeframe only: over a store with the same bars and
\* other cached ema / supertrend / signal values the same candidates are kept,
\* with the same streak annotations
C24_TrendIgnoresCachedIndicators ==
    (pc = "trend" /\ filters.supertrend # <<>>) =>
        \A j \in 1..Len(results) :
            (j < idx /\ EnoughHistory(results[j].ticker, TrendDays)) =>
                LET cfg    == filters.supertrend[1]
                    hist   == RecomputedStale[db[results[j].ticker], TrendDays,
                                              <<cfg.period, cfg.multiplier, cfg.timeframe>>]
                    last   == hist[Len(hist)]
                    streak == calculate_consecutive_streak(hist)
                    keeps  == TrendKeeps(cfg.color, filters.red_streak, last, streak[1])
                IN  /\ Kept(results[j].ticker) <=> keeps
                    /\ \A i \in 1..Len(filtered) :
                          filtered[i].ticker = results[j].ticker =>
                              /\ filtered[i].streak_days = streak[1]
                              /\ filtered[i].streak_status = streak[2]

\* C24 witness: a daily red filter kept a candidate whose latest bar is red as
\* recomputed; the cached supertrend of the stale store has that bar green
C24_Witness ==
    /\ pc = "trend"
    /\ filters.supertrend # <<>>
    /\ filters.supertrend[1].color = "red"
    /\ filters.supertrend[1].timeframe = "1D"
    /\ idx > Len(results)
    /\ \E i \in 1..Len(filtered) :
          LET rows == StaleRows(etf_data[db[filtered[i].ticker]])
          IN  /\ RGt(rows[Len(rows)].close, rows[Len(rows)].supertrend)
              /\ filtered[i].streak_status = "RED"
              /\ filtered[i].streak_days >= 2

\* the pipeline under a weekly Supertrend filter without a red-streak minimum
WeeklyTrendInit ==
    /\ db \in Stores
    /\ mode \in {"api", "cli"}
    /\ filters \in {WithConditions(filter_supertrend(NoFilters, color, "1W", 3, 1), c) :
                       color \in {"red", "green"},
                       c \in {<<>>, <<<<"close", <<<<"gte", 4>>, <<"lte", 4>>>>>>>>}}
                   \cup {filter_swing(NoFilters, 2, 5)}
    /\ \E sp \in ScreenParams : min_volume = sp[1] /\ days = sp[2]
    /\ pc = "volume"
    /\ results = <<>>
    /\ filtered = <<>>
    /\ idx = 1
    /\ fidx = 1
    /\ volume_out = <<>>
    /\ ret = "running"
    /\ IndIdle
    /\ StreakIdle
    /\ WeeklyIdle
    /\ ExtIdle

SpecWeeklyTrend == WeeklyTrendInit /\ [][Next]_vars

\* C25: every candidate the trend stage has kept was classified on a series
\* (weekly after resampling for 1W) of at least `period` bars, so the band
\* behind its latest Supertrend value is defined and its streak is not the
\* run of close-as-fallback bars
C25_KeptOnDefinedBand ==
    (pc = "trend" /\ filters.supertrend # <<>>) =>
        \A i \in 1..Len(filtered) :
            LET hist == TrendFrame(filtered[i].ticker)
            IN  /\ Len(hist) >= filters.supertrend[1].period
                /\ BothBandsDefined(hist[Len(hist)])

----------------------------------------------------------------------------
(* The condition lists of the builder (screener_api.py line 97-227).       *)

\* the fields a condition can be set on
ConditionFields == {"close", "ema", "pullback", "volume"}

\* the call is one of filter_close / filter_ema / filter_pullback / filter_volume
IsFieldCall(c) == c.method \in {"filter_" \o field : field \in ConditionFields}

\* self._filters['conditions'].get(field): the (op, threshold) pairs of the
\* field, none when the field has no entry
ListOf(f, field) ==
    IF \E i \in 1..Len(f.conditions) : f.conditions[i][1] = field
    THEN f.conditions[CHOOSE i \in 1..Len(f.conditions) : f.conditions[i][1] = field][2]
    ELSE <<>>

\* C28: a field's filter method called with at least one operator replaces
\* the whole condition list of that field by the pairs of the call (earlier
\* pairs of the field are discarded, not accumulated); called with no
\* operator it leaves the field's list as it was; either way the lists of
\* the other fields and the supertrend, swing and red_streak settings are
\* unchanged
C28_FieldCallReplacesList ==
    [][(pc = "build" /\ Len(calls') = Len(calls) + 1 /\ IsFieldCall(calls'[Len(calls')])) =>
          LET c == calls'[Len(calls')]
          IN  /\ ListOf(filters', c.field) =
                     (IF c.conditions # <<>> THEN c.conditions ELSE ListOf(filters, c.field))
              /\ \A g \in ConditionFields \ {c.field} : ListOf(filters', g) = ListOf(filters, g)
              /\ filters'.supertrend = filters.supertrend
              /\ filters'.swing = filters.swing
              /\ filters'.red_streak = filters.red_streak]_vars

\* filter_close(gte=4) followed by filter_close(gt=1, lte=5): the field
\* holds the pairs of the second call only
C28_Witness ==
    /\ pc = "build"
    /\ Len(calls) = 2
    /\ calls[1].method = "filter_close" /\ calls[1].conditions = <<<<"gte", 4>>>>
    /\ calls[2].method = "filter_close"
    /\ calls[2].conditions = <<<<"gt", 1>>, <<"lte", 5>>>>
    /\ filters.conditions = <<<<"close", <<<<"gt", 1>>, <<"lte", 5>>>>>>>>

----------------------------------------------------------------------------
(* Reuse of a builder: execute() called twice on the same Screener over an *)
(* unchanged store (screener_api.py line 229-362).                         *)

\* the filters of the builders that are run twice
ReuseSpecs ==
    {WithConditions(t, c) :
        t \in {NoFilters,
               filter_supertrend(NoFilters, "green", "1D", 10, 3),
               filter_red_streak(filter_supertrend(NoFilters, "red", "1D", 10, 3), 10)},
        c \in {<<>>, <<<<"ema", <<<<"lt", 5>>>>>>, <<"close", <<<<"ne", 3>>>>>>>>}}
        \cup {filter_swing(NoFilters, 2, 5)}

ReuseInit ==
    /\ db \in Stores
    /\ mode = "api"
    /\ filters \in ReuseSpecs
    /\ \E sp \in ScreenParams : min_volume = sp[1] /\ days = sp[2]
    /\ pc = "volume"
    /\ results = <<>>
    /\ filtered = <<>>
    /\ idx = 1
    /\ fidx = 1
    /\ volume_out = <<>>
    /\ ret = "running"
    /\ IndIdle
    /\ StreakIdle
    /\ WeeklyIdle
    /\ ExtIdle

\* fault model: execute uses its filters up
ConsumedByExecute(f) == NoFilters

\* self._filters when execute has returned: execute reads its entries and
\* assigns to none of them
AfterExecute(f) == f

\* what a call of execute() starts from: its locals are fresh, the store and
\* the builder's settings are those the builder holds
StartExecute ==
    /\ pc' = "volume"
    /\ results' = <<>>
    /\ filtered' = <<>>
    /\ idx' = 1
    /\ fidx' = 1
    /\ volume_out' = <<>>
    /\ ret' = "running"
    /\ runs' = runs + 1
    /\ first_run' = [ret |-> ret, results |-> results, volume_out |-> volume_out]
    /\ UNCHANGED <<db, mode, min_volume, days>>
    /\ UNCHANGED <<indVars, streakVars, weeklyVars, discVars, cacheVars, batchVars>>
    /\ UNCHANGED <<cvalue, cthreshold, cresult, cpc, max_results, queries, lookups>>

\* the caller calls execute() again on the builder whose run has returned
ExecuteAgain ==
    /\ pc = "done"
    /\ mode = "api"
    /\ runs = 0
    /\ filters' = AfterExecute(filters)
    /\ UNCHANGED calls
    /\ StartExecute

ReuseNext == Next \/ ExecuteAgain

SpecReuse == ReuseInit /\ [][ReuseNext]_vars

\* C27: execute() leaves the builder's accumulated filter specification and
\* its volume / day-window settings unchanged, so that a second execute() on
\* the same builder over an unchanged store (the volume query answering in
\* the same order) returns what the first returned: the same candidates in
\* the same order
C27_ExecuteLeavesBuilderReusable ==
    /\ [][filters' = filters /\ min_volume' = min_volume /\ days' = days]_vars
    /\ []((runs = 1 /\ pc = "done" /\ volume_out = first_run.volume_out) =>
              (ret = first_run.ret /\ results = first_run.results))

\* a builder with a Supertrend filter and two condition fields has returned
\* the same non-empty frame twice
C27_Witness ==
    /\ runs = 1
    /\ pc = "done"
    /\ ret = "frame"
    /\ first_run.ret = "frame"
    /\ results = first_run.results
    /\ results # <<>>
    /\ filters.supertrend # <<>>
    /\ Len(filters.conditions) = 2

----------------------------------------------------------------------------
(* The order of the chained filter calls (screener_api.py line 65-227) and *)
(* the result of execute().                                                *)

\* the builder after the call c
ApplyCall(self, c) ==
    CASE c.method = "filter_supertrend" ->
             filter_supertrend(self, c.color, c.timeframe, c.period, c.multiplier)
      [] c.method = "filter_red_streak" -> filter_red_streak(self, c.min_days)
      [] c.method = "filter_swing" -> filter_swing(self, c.min_pullback, c.max_ema_distance)
      [] OTHER -> add_condition(self, c.field, c.conditions)

\* the builder after the chain of calls cs, first call first
RECURSIVE Chained(_, _)
Chained(self, cs) ==
    IF cs = <<>> THEN self ELSE Chained(ApplyCall(self, Head(cs)), Tail(cs))

SupertrendCall(color, timeframe, period, multiplier) ==
    [method |-> "filter_supertrend", color |-> color, timeframe |-> timeframe,
     period |-> period, multiplier |-> multiplier]

FieldCall(field, conditions) ==
    [method |-> "filter_" \o field, field |-> field, conditions |-> conditions]

\* chains of calls on distinct fields and settings
CallChains ==
    {<<SupertrendCall("red", "1D", 10, 3),
       [method |-> "filter_red_streak", min_days |-> 10],
       FieldCall("ema", <<<<"lt", 5>>>>)>>,
     <<SupertrendCall("red", "1W", 3, 1), FieldCall("close", <<<<"ne", 3>>>>)>>,
     <<SupertrendCall("green", "1D", 10, 3), FieldCall("close", <<<<"eq", 5>>>>)>>,
     <<FieldCall("ema", <<<<"lt", 5>>>>), FieldCall("close", <<<<"ne", 3>>>>)>>,
     <<FieldCall("close", <<<<"gte", 4>>, <<"lte", 4>>>>), FieldCall("volume", <<<<"gt", 1>>>>)>>,
     <<FieldCall("pullback", <<<<"lte", 5>>>>), FieldCall("close", <<<<"eq", 5>>>>)>>,
     <<[method |-> "filter_swing", min_pullback |-> 2, max_ema_distance |-> 5],
       FieldCall("close", <<<<"gte", 4>>>>)>>}

\* the chain cs in another order
Reordered(cs) ==
    {[i \in 1..Len(cs) |-> cs[p[i]]] :
        p \in {q \in [1..Len(cs) -> 1..Len(cs)] :
                  /\ \A i, j \in 1..Len(cs) : q[i] = q[j] => i = j
                  /\ \E i \in 1..Len(cs) : q[i] # i}}

OrderInit ==
    /\ db \in Stores
    /\ mode = "api"
    /\ calls \in CallChains
    /\ filters = Chained(NoFilters, calls)
    /\ \E sp \in ScreenParams : min_volume = sp[1] /\ days = sp[2]
    /\ pc = "volume"
    /\ results = <<>>
    /\ filtered = <<>>
    /\ idx = 1
    /\ fidx = 1
    /\ volume_out = <<>>
    /\ ret = "running"
    /\ IndIdle
    /\ StreakIdle
    /\ WeeklyIdle
    /\ CondIdle
    /\ queries = <<>> /\ lookups = <<>> /\ max_results = <<>>
    /\ CacheIdle

\* a second builder receives the same calls in another order and is
\* executed over the same store
ExecuteReordered ==
    /\ pc = "done"
    /\ mode = "api"
    /\ runs = 0
    /\ \E cs \in Reordered(calls) :
          /\ calls' = cs
          /\ filters' = Chained(NoFilters, cs)
    /\ StartExecute

OrderNext == Next \/ ExecuteReordered

SpecOrder == OrderInit /\ [][OrderNext]_vars

\* C29: the result of execute() does not depend on the order in which the
\* filter-setting methods were chained: two builders that received the same
\* calls on distinct fields / settings in different orders return, over the
\* same store (the volume query answering in the same order), the same
\* candidates, with the same columns, in the same order
C29_ChainOrderIrrelevant ==
    (runs = 1 /\ pc = "done" /\ volume_out = first_run.volume_out) =>
        (ret = first_run.ret /\ results = first_run.results)

\* two condition fields chained in both orders: both builders returned the
\* same frame, which holds one of the two candidates of the volume stage
C29_Witness ==
    /\ runs = 1
    /\ pc = "done"
    /\ Len(calls) = 2
    /\ calls[1].method = "filter_close" /\ calls[2].method = "filter_ema"
    /\ filters.conditions[1][1] = "close"
    /\ ret = "frame"
    /\ first_run.ret = "frame"
    /\ Len(volume_out) = 2
    /\ Len(results) = 1
    /\ TickersOf(results) = TickersOf(first_run.results)

----------------------------------------------------------------------------
(* etf_discovery.py: the working set and the blacklist of ETFDiscovery.    *)

\* calls made on one ETFDiscovery object
MaxOps == 2

\* longest ticker list a caller passes
MaxList == 2

\* the curated list, cut to three entries: like the source's list it names
\* a ticker more than once (EUSA.DE at line 19 and 38)
INITIAL_XETRA_ETFS == <<"EUSA.DE", "EUNX.DE", "EUSA.DE">>

DiscTickers == {"EUSA.DE", "EUNX.DE"}

\* the `tickers` argument of discover / discover_parallel; None stands for
\* the curated list (line 128-129, 180-181)
TickerLists == SeqsUpTo(DiscTickers, MaxList) \cup {INITIAL_XETRA_ETFS}

\* __init__: both dicts are loaded from their files; the files hold
\* disjoint key sets
DiscInit ==
    /\ working_etfs \in SUBSET DiscTickers
    /\ blacklist \in SUBSET (DiscTickers \ working_etfs)
    /\ etfs_file = working_etfs
    /\ blacklist_file = blacklist
    /\ dpc = "idle" /\ pending = <<>> /\ futures = {} /\ max_workers = 0 /\ nops = 0
    /\ table = {} /\ seq = 0 /\ cache_df = <<>> /\ last_calls = <<>> /\ ninserts = 0
    /\ to_fetch = <<>> /\ fetched = <<>> /\ failures = {}
    /\ ReuseIdle
    /\ CoreIdle /\ CondIdle /\ BuildIdle

\* what the discovery calls leave alone
DiscFrame ==
    /\ UNCHANGED <<indVars, streakVars, weeklyVars, screenVars, cacheVars, batchVars, reuseVars>>
    /\ UNCHANGED <<cvalue, cthreshold, cresult, cpc, max_results, calls, queries, lookups>>

\* _save_json of both dicts (line 152-153, 214-215, 236-237, 244-245)
SaveBoth(working, black) ==
    /\ etfs_file' = working
    /\ blacklist_file' = black

\* working_etfs[ticker] = ... / blacklist[ticker] = ... by the outcome of
\* the validation (line 142-149, 203-207)
Recorded(ticker, is_valid) ==
    /\ working_etfs' = IF is_valid THEN working_etfs \cup {ticker} ELSE working_etfs
    /\ blacklist' = IF is_valid THEN blacklist ELSE blacklist \cup {ticker}

\* discover(tickers) is called
Discover ==
    /\ dpc = "idle" /\ nops < MaxOps
    /\ \E tickers \in TickerLists : pending' = tickers
    /\ dpc' = "discover"
    /\ nops' = nops + 1
    /\ UNCHANGED <<working_etfs, blacklist, etfs_file, blacklist_file, futures, max_workers>>
    /\ DiscFrame

\* discover, one turn of its loop: a ticker in either dict is skipped, any
\* other is validated and recorded
DiscoverStep ==
    /\ dpc = "discover" /\ pending # <<>>
    /\ IF Head(pending) \in working_etfs \/ Head(pending) \in blacklist
       THEN UNCHANGED <<working_etfs, blacklist>>
       ELSE \E is_valid \in BOOLEAN : Recorded(Head(pending), is_valid)
    /\ pending' = Tail(pending)
    /\ UNCHANGED <<etfs_file, blacklist_file, dpc, futures, max_workers, nops>>
    /\ DiscFrame

\* discover saves both dicts and returns
DiscoverSave ==
    /\ dpc = "discover" /\ pending = <<>>
    /\ SaveBoth(working_etfs, blacklist)
    /\ dpc' = "idle"
    /\ UNCHANGED <<working_etfs, blacklist, pending, futures, max_workers, nops>>
    /\ DiscFrame

\* discover_parallel(tickers, max_workers) is called: the tickers in neither
\* dict are submitted, one future each; with none it returns at once
DiscoverParallel ==
    /\ dpc = "idle" /\ nops < MaxOps
    /\ \E tickers \in TickerLists, workers \in {1, 2} :
          LET new == SelectSeq(tickers, LAMBDA t : t \notin working_etfs /\ t \notin blacklist)
          IN  IF new = <<>>
              THEN UNCHANGED <<pending, futures, max_workers, dpc>>
              ELSE /\ pending' = new
                   /\ futures' = 1..Len(new)
                   /\ max_workers' = workers
                   /\ dpc' = "parallel"
    /\ nops' = nops + 1
    /\ UNCHANGED <<working_etfs, blacklist, etfs_file, blacklist_file>>
    /\ DiscFrame

\* the futures a thread of the pool is running: the pool starts them in the
\* order of submission, max_workers at a time
Running == {i \in futures : Cardinality({j \in futures : j < i}) < max_workers}

\* as_completed yields a future whose validation has returned, and the loop
\* records its outcome
Complete ==
    /\ dpc = "parallel"
    /\ \E i \in Running, is_valid \in BOOLEAN :
          /\ Recorded(pending[i], is_valid)
          /\ futures' = futures \ {i}
    /\ UNCHANGED <<etfs_file, blacklist_file, dpc, pending, max_workers, nops>>
    /\ DiscFrame

\* discover_parallel saves both dicts and returns
ParallelSave ==
    /\ dpc = "parallel" /\ futures = {}
    /\ SaveBoth(working_etfs, blacklist)
    /\ dpc' = "idle"
    /\ pending' = <<>>
    /\ max_workers' = 0
    /\ UNCHANGED <<working_etfs, blacklist, futures, nops>>
    /\ DiscFrame

add_to_blacklist(ticker) ==
    /\ blacklist' = blacklist \cup {ticker}
    /\ working_etfs' = working_etfs \ {ticker}
    /\ SaveBoth(working_etfs \ {ticker}, blacklist \cup {ticker})

add_to_working(ticker) ==
    /\ working_etfs' = working_etfs \cup {ticker}
    /\ blacklist' = blacklist \ {ticker}
    /\ SaveBoth(working_etfs \cup {ticker}, blacklist \ {ticker})

AddToBlacklist ==
    /\ dpc = "idle" /\ nops < MaxOps
    /\ \E ticker \in DiscTickers : add_to_blacklist(ticker)
    /\ nops' = nops + 1
    /\ UNCHANGED <<dpc, pending, futures, max_workers>>
    /\ DiscFrame

AddToWorking ==
    /\ dpc = "idle" /\ nops < MaxOps
    /\ \E ticker \in DiscTickers : add_to_working(ticker)
    /\ nops' = nops + 1
    /\ UNCHANGED <<dpc, pending, futures, max_workers>>
    /\ DiscFrame

DiscNext ==
    \/ Discover
    \/ DiscoverStep
    \/ DiscoverSave
    \/ DiscoverParallel
    \/ Complete
    \/ ParallelSave
    \/ AddToBlacklist
    \/ AddToWorking

SpecDiscovery == DiscInit /\ [][DiscNext]_vars

\* C30: starting from disjoint working and blacklist sets, after any
\* sequence of discover, discover_parallel (any number of workers, any
\* completion order, any validation outcomes, ticker lists that may name a
\* ticker more than once), add_to_blacklist and add_to_working, no ticker is
\* in both the working set and the blacklist
C30_WorkingAndBlacklistDisjoint == working_etfs \cap blacklist = {}

====
